---- MODULE Spec2Model ----
(***************************************************************************)
(* A model of lib/ffcmodel.js: the device-state store that keeps record    *)
(* files in time blocks on disk and an index of them in an ordered-set /   *)
(* hash store (fm:devices, fm:blk:<devid>, fm:_blk:<devid>,                *)
(* fm:lgv:<devid>).                                                        *)
(*                                                                         *)
(* Every public operation is one action that runs the whole callback chain *)
(* of the handler.  A failing file-system call or index-store command is   *)
(* an input of the operation: `fault` names the one command of the call    *)
(* that reports an error.                                                  *)
(***************************************************************************)
EXTENDS Integers, Sequences, FiniteSets, TLC

VARIABLES
    files,      \* record files on disk: pathname -> stored record
    tmps,       \* the <record>.tmp files on disk (set of pathnames)
    dirs,       \* the device block directories on disk: <<devid, block>>
    tgz,        \* archive files: <<devid, block>> -> packed directory
    devices,    \* fm:devices
    blk,        \* fm:blk:<devid>
    ablk,       \* fm:_blk:<devid>
    lgv,        \* fm:lgv:<devid>, a hash: field -> value
    last,       \* the last operation: its arguments, steps and outcome
    nOps,       \* operations performed so far
    nFaults,    \* failures injected so far
    written,    \* history: <<devid, id, t, value>> of every metric written by a
                \* putDevState that returned without error
    allPutsOk,  \* history: no putDevState has returned an error so far
    pending     \* the calls in flight whose commands interleave: a sequence
                \* of call records (empty: the calls run one after another)

vars == <<files, tmps, dirs, tgz, devices, blk, ablk, lgv, last, nOps, nFaults,
          written, allPutsOk, pending>>

(***************************************************************************)
(* Bounds of the model.                                                    *)
(***************************************************************************)
MaxOps == 2
MaxFaults == 1
MaxDeep == 4
MaxTravel == 6
MaxRead == 4
MaxOpen == 5
MaxCodec == 1
MaxClock == 1
MaxExample == 3
MaxRace == 4

(***************************************************************************)
(* Inputs.  A time is a Date: whole seconds since the epoch plus the       *)
(* milliseconds within the second.                                         *)
(***************************************************************************)
Time(s, ms) == [sec |-> s, ms |-> ms]

Devs == {1, 2}
MetricIds == {1, 2}
Values == {10, 20}

\* 2023-11-14T22:13:20Z, one minute later, and 2023-11-15T00:00:00Z
Ticks == {Time(1700000000, 0), Time(1700000060, 0), Time(1700006400, 0)}

Metric(id, v) == [id |-> id, status |-> 0, value |-> v, scale |-> 0]

MetricLists ==
    {<< >>}
    \cup {<<Metric(i, v)>> : i \in MetricIds, v \in Values}
    \cup {ms \in {<<Metric(i, v), Metric(j, w)>> :
                    i \in MetricIds, j \in MetricIds, v \in Values, w \in Values} :
            ms[1].id # ms[2].id}

NoFault == <<"none", 0>>

\* A fault <<command, n>>: the n-th time the call issues the command, it fails.
PutFaults ==
    {<<"encode", 1>>, <<"mkdirp", 1>>, <<"writeFile", 1>>, <<"rename", 1>>,
     <<"hget_ticktime", 1>>, <<"hset_ticktime", 1>>,
     <<"zadd_blk", 1>>, <<"zadd_devices", 1>>}
    \cup {<<"hget", i>> : i \in 1..2}
    \cup {<<"hmset", i>> : i \in 1..2}

\* the wall clock of a housekeeping run: 2023-11-14T23:13:20Z, in the block of
\* the first two ticks, and 2023-11-15T02:00:00Z, after every tick
Nows == {Time(1700003600, 0), Time(1700013600, 0)}

\* the options of housekeeping: none, level1Blocks 0, 1 and -1
HkOptions ==
    {[o \in {} |-> 0], [level1Blocks |-> 0], [level1Blocks |-> 1],
     [level1Blocks |-> -1]}

HkFaults ==
    {<<"zrange_devices", 1>>, <<"zrange_devices", 2>>, <<"zrem_blk", 1>>,
     <<"tar_czf", 1>>, <<"zadd_ablk", 1>>}

\* the metric ids a projection asks for
IdLists == {<< >>, <<1>>, <<1, 2>>}

ProjectFaults == {<<"tar_xzf", 1>>, <<"readdir", 1>>, <<"readFile", 1>>}

(***************************************************************************)
(* Date: the UTC calendar fields of an instant (Date.getUTCFullYear,       *)
(* getUTCMonth, getUTCDate, getUTCHours), from the days since the epoch.   *)
(***************************************************************************)
DayOfEra(sec) == ((sec \div 86400) + 719468) % 146097
Era(sec) == ((sec \div 86400) + 719468) \div 146097
YearOfEra(sec) ==
    LET doe == DayOfEra(sec)
    IN  (doe - (doe \div 1460) + (doe \div 36524) - (doe \div 146096)) \div 365
DayOfYear(sec) ==
    LET yoe == YearOfEra(sec)
    IN  DayOfEra(sec) - (365 * yoe + (yoe \div 4) - (yoe \div 100))
MonthFromMarch(sec) == (5 * DayOfYear(sec) + 2) \div 153

getUTCMonth(sec) ==
    LET mp == MonthFromMarch(sec) IN IF mp < 10 THEN mp + 2 ELSE mp - 10
getUTCFullYear(sec) ==
    YearOfEra(sec) + Era(sec) * 400 + (IF getUTCMonth(sec) <= 1 THEN 1 ELSE 0)
getUTCDate(sec) ==
    DayOfYear(sec) - ((153 * MonthFromMarch(sec) + 2) \div 5) + 1
getUTCHours(sec) == (sec % 86400) \div 3600

(***************************************************************************)
(* Block clock and path resolver.                                          *)
(***************************************************************************)
dftBlockHours == 2
blockHours == dftBlockHours
level1BlocksTravelMax == (2 * 24) \div blockHours
archiveBlocksTravelMax == 2

\* the block index without the year: not monotone over a new year
timeToBlockindexAt_noYear(hours, time) ==
    LET m == getUTCMonth(time.sec) + 1
        d == getUTCDate(time.sec)
        h == getUTCHours(time.sec)
    IN  m * 10000 + d * 100 + (h \div hours)

\* timeToBlockindex when blockHours is hours
timeToBlockindexAt(hours, time) ==
    LET y == getUTCFullYear(time.sec)
        m == getUTCMonth(time.sec) + 1
        d == getUTCDate(time.sec)
        h == getUTCHours(time.sec)
    IN  y * 1000000 + m * 10000 + d * 100 + (h \div hours)

\* the block index with blocks of one hour
timeToBlockindex_hourly(time) == timeToBlockindexAt(1, time)

timeToBlockindex(time) == timeToBlockindexAt(blockHours, time)

\* the directory <dataRoot>/<block>/<devid>
devBlockdir(devid, block) == <<devid, block>>

\* a file name <epoch>.dat: (time.valueOf() / 1000).toString() prints the
\* seconds, followed by the fraction when the milliseconds are not zero
FileName(time) == <<time.sec, time.ms>>

\* the epoch of a file name: +name.split('.')[0]
NameEpoch(name) == name[1]

\* a path: the device block directory and the file name in it
devStateFilename(devid, time) ==
    [dir |-> devBlockdir(devid, timeToBlockindex(time)), name |-> FileName(time)]

(***************************************************************************)
(* The index store: ordered sets and hashes.                               *)
(***************************************************************************)
Nil == -1

EmptyHash == [f \in {} |-> 0]
hget(hash, field) == IF field \in DOMAIN hash THEN hash[field] ELSE Nil
hmset(hash, kv) ==
    [f \in DOMAIN hash \cup DOMAIN kv |-> IF f \in DOMAIN kv THEN kv[f] ELSE hash[f]]
zadd(set, member) == set \cup {member}
zrem(set, member) == set \ {member}

\* the fields of fm:lgv:<devid>: <id>_ticktime, ..., and the field ticktime
Field(id, name) == <<id, name>>
TicktimeField == <<Nil, "ticktime">>

(***************************************************************************)
(* The store as one value, and the context a handler threads through its   *)
(* callbacks.                                                              *)
(***************************************************************************)
Store ==
    [files |-> files, tmps |-> tmps, dirs |-> dirs, tgz |-> tgz,
     devices |-> devices, blk |-> blk, ablk |-> ablk, lgv |-> lgv]

\* trace: the commands issued, in order, each <<command, argument>>;
\* failedAt: the position in trace of the command that reported an error
\* (0: none did); err: an error is being passed to the callback; called: the
\* handler's callback was invoked; archived: the <<devid, block>> for which
\* archiveDeviceBlock called back without an error; copy: the metrics
\* copyMetricsFromFile hands to its callback; thrown: an exception left a
\* callback uncaught, which ends the process: the callbacks of the commands
\* issued before it never run; unopened: the blocks that could not be
\* opened, each with the position in trace at which its opening starts
Ctx(st) ==
    [st |-> st, trace |-> << >>, err |-> FALSE, called |-> TRUE, failedAt |-> 0,
     newFile |-> FALSE, renamed |-> FALSE, modified |-> FALSE,
     result |-> << >>, opened |-> << >>, extracted |-> << >>,
     archived |-> << >>, copy |-> << >>, thrown |-> FALSE,
     unopened |-> << >>]

Log(c, name, arg) == [c EXCEPT !.trace = Append(@, <<name, arg>>)]
Hit(c) == [c EXCEPT !.failedAt = Len(c.trace)]
Fail(c) == [c EXCEPT !.err = TRUE]
Lost(c) == [c EXCEPT !.called = FALSE]

\* how many times the command has been issued
Occ(c, name) == Cardinality({k \in DOMAIN c.trace : c.trace[k][1] = name})

\* the command issued last is the one that fails
Fails(c, fault) ==
    /\ c.trace # << >>
    /\ fault[1] = c.trace[Len(c.trace)][1]
    /\ fault[2] = Occ(c, fault[1])

SetMin(S) == CHOOSE x \in S : \A y \in S : x <= y
SetMax(S) == CHOOSE x \in S : \A y \in S : x >= y

RECURSIVE Ascending(_)
Ascending(S) ==
    IF S = {} THEN << >> ELSE <<SetMin(S)>> \o Ascending(S \ {SetMin(S)})

RECURSIVE Descending(_)
Descending(S) ==
    IF S = {} THEN << >> ELSE <<SetMax(S)>> \o Descending(S \ {SetMax(S)})

Take(seq, n) == IF n >= Len(seq) THEN seq ELSE SubSeq(seq, 1, n)

(***************************************************************************)
(* persistDevState: serialize, then write the temp file and rename it.     *)
(***************************************************************************)
\* the record as stored: the store keeps a buffer as the DevState it
\* decodes to; the bytes of the buffer are those of serializedBuffer below
serializeDevState(devState) == devState

wrFile(c, devid, ticktime, buf, fault) ==
    LET fn == devStateFilename(devid, ticktime)
        newFile == fn \notin DOMAIN c.st.files
        c1 == Log(Log(c, "access", 0), "mkdirp", 0)
    IN  IF Fails(c1, fault) THEN Fail(Hit(c1))
        ELSE
        LET c2 == Log([c1 EXCEPT !.st.dirs = @ \cup {fn.dir}], "writeFile", 0)
        IN  IF Fails(c2, fault) THEN Fail(Hit(c2))
            ELSE
            LET c3 == Log([c2 EXCEPT !.st.tmps = @ \cup {fn}], "rename", 0)
            IN  IF Fails(c3, fault)
                THEN [Hit(c3) EXCEPT !.newFile = newFile]
                ELSE [c3 EXCEPT
                        !.st.files = [f \in DOMAIN @ \cup {fn} |->
                                        IF f = fn THEN buf ELSE @[f]],
                        !.st.tmps = @ \ {fn},
                        !.renamed = TRUE,
                        !.newFile = newFile]

persistDevState(c, devid, ticktime, devState, fault) ==
    LET c1 == Log(c, "encode", 0)
    IN  IF Fails(c1, fault) THEN Fail(Hit(c1))
        ELSE wrFile(c1, devid, ticktime, serializeDevState(devState), fault)

(***************************************************************************)
(* updateLastGoodValue                                                     *)
(***************************************************************************)
\* the hmset arguments of one metric
updateMetric(metric, t) ==
    LET id == metric.id
        base == [f \in {Field(id, "ticktime"), Field(id, "status"),
                        Field(id, "value"), Field(id, "scale")} |->
                    CASE f[2] = "ticktime" -> t
                      [] f[2] = "status" -> metric.status
                      [] f[2] = "value" -> metric.value
                      [] OTHER -> metric.scale]
    IN  IF "timestamp" \in DOMAIN metric
        THEN hmset(base, [f \in {Field(id, "timestamp")} |-> metric.timestamp])
        ELSE base

\* mutants of KeepStored: the comparison reversed, and a tie kept
KeepStored_reversed(thatTime, t) == thatTime # Nil /\ thatTime < t
KeepStored_tieKept(thatTime, t) == thatTime # Nil /\ thatTime >= t

\* the stored metric is kept: thatTime && +thatTime > t
KeepStored(thatTime, t) == thatTime # Nil /\ thatTime > t

\* the walk over the metrics of the record
RECURSIVE updateMetrics(_, _, _, _, _)
updateMetrics(c, devid, metrics, t, fault) ==
    IF metrics = << >> THEN c
    ELSE
    LET m == Head(metrics)
        c1 == Log(c, "hget", m.id)
        thatTime == hget(c.st.lgv[devid], Field(m.id, "ticktime"))
    IN  IF Fails(c1, fault) THEN Hit(c1)
        ELSE IF KeepStored(thatTime, t) THEN c1
        ELSE
        LET c2 == Log(c1, "hmset", m.id)
        IN  IF Fails(c2, fault) THEN Hit(c2)
            ELSE updateMetrics(
                    [c2 EXCEPT !.st.lgv[devid] = hmset(@, updateMetric(m, t)),
                               !.modified = TRUE],
                    devid, Tail(metrics), t, fault)

\* the global ticktime is kept: lasttime && lasttime >= t
KeepLasttime(lasttime, t) == lasttime # Nil /\ lasttime >= t

updateLastGoodValue(c, devid, devState, ticktime, fault) ==
    LET t == ticktime.sec
        c1 == updateMetrics(c, devid, devState.metrics, t, fault)
    IN  IF ~c1.modified THEN c1
        ELSE
        LET c2 == Log(c1, "hget_ticktime", 0)
            failed == Fails(c2, fault)
            lasttime == IF failed THEN Nil ELSE hget(c1.st.lgv[devid], TicktimeField)
            c3 == IF failed THEN Hit(c2) ELSE c2
        IN  IF KeepLasttime(lasttime, t) THEN c3
            ELSE
            LET c4 == Log(c3, "hset_ticktime", 0)
            IN  IF Fails(c4, fault) THEN Fail(Hit(c4))
                ELSE [c4 EXCEPT !.st.lgv[devid] =
                        hmset(@, [f \in {TicktimeField} |-> t])]

(***************************************************************************)
(* markTime and saveDevStateAndUpdateIndex                                 *)
(***************************************************************************)
markTime(c, devid, ticktime, fault) ==
    LET block == timeToBlockindex(ticktime)
        c1 == Log(c, "zadd_blk", block)
    IN  IF Fails(c1, fault) THEN Fail(Hit(c1))
        ELSE [c1 EXCEPT !.st.blk[devid] = zadd(@, block)]

addDevice(c, devid, fault) ==
    LET c1 == Log(c, "zadd_devices", devid)
    IN  IF Fails(c1, fault) THEN Fail(Hit(c1))
        ELSE [c1 EXCEPT !.st.devices = zadd(@, devid)]

\* mutants of saveDevStateAndUpdateIndex: the block is marked before the
\* last good value is updated, and the device is added whether or not the
\* file is new
saveDevStateAndUpdateIndex_blkFirst(st, devid, ticktime, devState, fault) ==
    LET c1 == persistDevState(Ctx(st), devid, ticktime, devState, fault)
    IN  IF c1.err THEN c1
        ELSE
        LET c2 == markTime(c1, devid, ticktime, fault)
        IN  IF c2.err THEN c2
            ELSE
            LET c3 == updateLastGoodValue(c2, devid, devState, ticktime, fault)
            IN  IF c3.err \/ ~c3.newFile THEN c3
                ELSE addDevice(c3, devid, fault)

saveDevStateAndUpdateIndex_always(st, devid, ticktime, devState, fault) ==
    LET c1 == persistDevState(Ctx(st), devid, ticktime, devState, fault)
    IN  IF c1.err THEN c1
        ELSE
        LET c2 == updateLastGoodValue(c1, devid, devState, ticktime, fault)
        IN  IF c2.err THEN c2
            ELSE
            LET c3 == markTime(c2, devid, ticktime, fault)
            IN  IF c3.err THEN c3
                ELSE addDevice(c3, devid, fault)

saveDevStateAndUpdateIndex(st, devid, ticktime, devState, fault) ==
    LET c1 == persistDevState(Ctx(st), devid, ticktime, devState, fault)
    IN  IF c1.err THEN c1
        ELSE
        LET c2 == updateLastGoodValue(c1, devid, devState, ticktime, fault)
        IN  IF c2.err THEN c2
            ELSE
            LET c3 == markTime(c2, devid, ticktime, fault)
            IN  IF c3.err \/ ~c3.newFile THEN c3
                ELSE addDevice(c3, devid, fault)

putDevState(st, devid, ticktime, devState, fault) ==
    saveDevStateAndUpdateIndex(st, devid, ticktime, devState, fault)

(***************************************************************************)
(* The file system under dataRoot: block directories and archives.         *)
(***************************************************************************)
Path(dir, name) == [dir |-> dir, name |-> name]
DirFiles(st, dir) == {f \in DOMAIN st.files : f.dir = dir}
DirTmps(st, dir) == {f \in st.tmps : f.dir = dir}

\* removes the block directory with the directories of every device in it
rmrf_blockdir(st, dir) ==
    [st EXCEPT !.dirs = {d \in @ : d[2] # dir[2]},
               !.files = [f \in {g \in DOMAIN @ : g.dir[2] # dir[2]} |-> @[f]],
               !.tmps = {f \in @ : f.dir[2] # dir[2]}]

\* shell.rm('-rf', devBlockdir(devid, block))
rmrf(st, dir) ==
    [st EXCEPT !.dirs = @ \ {dir},
               !.files = [f \in DOMAIN @ \ DirFiles(st, dir) |-> @[f]],
               !.tmps = @ \ DirTmps(st, dir)]

\* tar czf <archive> -C <dataRoot> <block>/<devid>: the archive written; a
\* directory that does not exist leaves an archive with nothing in it
Pack(st, dir) ==
    [ok |-> TRUE,
     hasDir |-> dir \in st.dirs,
     files |-> [n \in {f.name : f \in DirFiles(st, dir)} |-> st.files[Path(dir, n)]],
     tmps |-> {f.name : f \in DirTmps(st, dir)}]

\* the archive file a failed tar leaves behind
BrokenArchive == [ok |-> FALSE, hasDir |-> FALSE, files |-> << >>, tmps |-> {}]

\* tar xzf <archive> -C <dataRoot>: the files of the archive replace the
\* files of the same name
Unpack(st, dir, a) ==
    IF ~a.hasDir THEN st
    ELSE [st EXCEPT
            !.dirs = @ \cup {dir},
            !.files = [f \in DOMAIN @ \cup {Path(dir, n) : n \in DOMAIN a.files} |->
                        IF f.dir = dir /\ f.name \in DOMAIN a.files
                        THEN a.files[f.name] ELSE @[f]],
            !.tmps = @ \cup {Path(dir, n) : n \in a.tmps}]

(***************************************************************************)
(* Housekeeping: prune the blocks younger than now.                        *)
(***************************************************************************)
\* removeDeviceBlockAfter.processBlocks
RECURSIVE pruneBlocks(_, _, _, _)
pruneBlocks(c, devid, blocks, fault) ==
    IF blocks = << >> THEN c
    ELSE
    LET block == Head(blocks)
        c1 == Log(c, "zrem_blk", block)
    IN  IF Fails(c1, fault) THEN Fail(Hit(c1))
        ELSE
        LET st1 == [c1.st EXCEPT !.blk[devid] = zrem(@, block)]
        IN  pruneBlocks([c1 EXCEPT !.st = rmrf(st1, devBlockdir(devid, block))],
                        devid, Tail(blocks), fault)

removeDeviceBlockAfter(c, devid, block, fault) ==
    LET c1 == Log(c, "zrangebyscore_blk", devid)
        blockList == Ascending({b \in c.st.blk[devid] : b > block})
    IN  IF Fails(c1, fault) THEN Fail(Hit(c1))
        ELSE pruneBlocks(c1, devid, blockList, fault)

\* removeBlocksAfter.processDevices
RECURSIVE processDevices(_, _, _, _)
processDevices(c, devList, block, fault) ==
    IF devList = << >> THEN c
    ELSE
    LET c1 == removeDeviceBlockAfter(c, Head(devList), block, fault)
    IN  IF c1.err THEN c1
        ELSE processDevices(c1, Tail(devList), block, fault)

\* a failed listing of fm:devices returns without invoking the callback
removeBlocksAfter(c, block, fault) ==
    LET c1 == Log(c, "zrange_devices", 0)
    IN  IF Fails(c1, fault) THEN [Hit(c1) EXCEPT !.called = FALSE]
        ELSE processDevices(c1, Ascending(c.st.devices), block, fault)

(***************************************************************************)
(* Housekeeping: archive the aged blocks.                                  *)
(***************************************************************************)
markDeviceBlockArchived(c, devid, block, fault) ==
    LET c1 == Log(c, "zadd_ablk", block)
    IN  IF Fails(c1, fault) THEN Fail(Hit(c1))
        ELSE [c1 EXCEPT !.st.ablk[devid] = zadd(@, block)]

removeDeviceBlockIndex(c, devid, block, fault) ==
    LET c1 == Log(c, "zrem_blk", block)
    IN  IF Fails(c1, fault) THEN Fail(Hit(c1))
        ELSE [c1 EXCEPT !.st.blk[devid] = zrem(@, block)]

removeDeviceBlock(c, devid, block, fault) ==
    LET c1 == removeDeviceBlockIndex(c, devid, block, fault)
    IN  IF c1.err THEN c1
        ELSE [c1 EXCEPT !.st = rmrf(@, devBlockdir(devid, block))]

\* the exit code of tar is not looked at: the block is removed and marked
\* archived whatever tar did
archiveDeviceBlock(c, devid, block, fault) ==
    LET c1 == Log(c, "mkdirp_archive", devid)
    IN  IF Fails(c1, fault) THEN Fail(Hit(c1))
        ELSE
        LET c2 == Log(c1, "tar_czf", block)
            key == <<devid, block>>
            archive == IF Fails(c2, fault) THEN BrokenArchive
                       ELSE Pack(c2.st, devBlockdir(devid, block))
            c3 == [(IF Fails(c2, fault) THEN Hit(c2) ELSE c2) EXCEPT
                    !.st.tgz = [k \in DOMAIN @ \cup {key} |->
                                  IF k = key THEN archive ELSE @[k]]]
            c4 == removeDeviceBlock(c3, devid, block, fault)
            c5 == IF c4.err THEN c4
                  ELSE markDeviceBlockArchived(c4, devid, block, fault)
        IN  IF c5.err THEN c5
            ELSE [c5 EXCEPT !.archived = Append(@, key)]

\* archiveDeviceAgedBlocks.processBlocks
RECURSIVE archiveBlocks(_, _, _, _)
archiveBlocks(c, devid, blocks, fault) ==
    IF blocks = << >> THEN c
    ELSE
    LET c1 == archiveDeviceBlock(c, devid, Head(blocks), fault)
    IN  IF c1.err THEN c1
        ELSE archiveBlocks(c1, devid, Tail(blocks), fault)

\* archives the newest blocks instead of the oldest
archiveDeviceAgedBlocks_newest(c, devid, level1BlocksNum, fault) ==
    LET c1 == Log(c, "zcard_blk", devid)
        length == Cardinality(c.st.blk[devid])
    IN  IF Fails(c1, fault) THEN Fail(Hit(c1))
        ELSE IF length = 0 THEN c1
        ELSE IF length - level1BlocksNum <= 0 THEN c1
        ELSE
        LET nremove == length - level1BlocksNum
            c2 == Log(c1, "zrange_blk", devid)
            blockList == Take(Descending(c.st.blk[devid]), nremove)
        IN  IF Fails(c2, fault) THEN Fail(Hit(c2))
            ELSE archiveBlocks(c2, devid, blockList, fault)

archiveDeviceAgedBlocks(c, devid, level1BlocksNum, fault) ==
    LET c1 == Log(c, "zcard_blk", devid)
        length == Cardinality(c.st.blk[devid])
    IN  IF Fails(c1, fault) THEN Fail(Hit(c1))
        ELSE IF length = 0 THEN c1
        ELSE IF length - level1BlocksNum <= 0 THEN c1
        ELSE
        LET nremove == length - level1BlocksNum
            c2 == Log(c1, "zrange_blk", devid)
            blockList == Take(Ascending(c.st.blk[devid]), nremove)
        IN  IF Fails(c2, fault) THEN Fail(Hit(c2))
            ELSE archiveBlocks(c2, devid, blockList, fault)

\* archiveAgedBlocks.processList: an error of a device returns without
\* invoking the callback
RECURSIVE processList(_, _, _, _)
processList(c, devList, level1BlocksNum, fault) ==
    IF devList = << >> THEN c
    ELSE
    LET c1 == archiveDeviceAgedBlocks(c, Head(devList), level1BlocksNum, fault)
    IN  IF c1.err THEN [c1 EXCEPT !.called = FALSE, !.err = FALSE]
        ELSE processList(c1, Tail(devList), level1BlocksNum, fault)

archiveAgedBlocks(c, level1BlocksNum, fault) ==
    LET c1 == Log(c, "zrange_devices", 0)
    IN  IF Fails(c1, fault) THEN Fail(Hit(c1))
        ELSE processList(c1, Ascending(c.st.devices), level1BlocksNum, fault)

\* ! options.level1Blocks > 0, that is (! options.level1Blocks) > 0: true
\* when level1Blocks is absent or 0, false for every other number
SkipArchive(options) ==
    \/ "level1Blocks" \notin DOMAIN options
    \/ options.level1Blocks = 0

housekeeping(st, now, options, fault) ==
    LET c1 == removeBlocksAfter(Ctx(st), timeToBlockindex(now), fault)
    IN  IF ~c1.called \/ c1.err THEN c1
        ELSE IF SkipArchive(options) THEN c1
        ELSE archiveAgedBlocks(c1, options.level1Blocks, fault)

(***************************************************************************)
(* Block loader and projection.                                            *)
(***************************************************************************)
\* the reply without the limit
getBlocksBackwards_unbounded(st, devid, time, inArchive) ==
    LET set == IF inArchive THEN st.ablk[devid] ELSE st.blk[devid]
    IN  Descending({b \in set : b <= timeToBlockindex(time)})

\* the reply of zrevrangebyscore key greatest -inf limit 0 limit
getBlocksBackwards(st, devid, time, inArchive) ==
    LET set == IF inArchive THEN st.ablk[devid] ELSE st.blk[devid]
        limit == IF inArchive THEN archiveBlocksTravelMax ELSE level1BlocksTravelMax
    IN  Take(Descending({b \in set : b <= timeToBlockindex(time)}), limit)

loadArchiveBlock(c, devid, block, fault) ==
    LET c1 == Log(c, "tar_xzf", block)
        key == <<devid, block>>
    IN  IF Fails(c1, fault) THEN Fail(Hit(c1))
        ELSE IF key \notin DOMAIN c.st.tgz THEN Fail(c1)
        ELSE IF ~c.st.tgz[key].ok THEN Fail(c1)
        ELSE [c1 EXCEPT !.st = Unpack(@, devBlockdir(devid, block), c.st.tgz[key]),
                        !.extracted = Append(@, block)]

\* a failed lookup in fm:_blk counts as "not archived"
isBlockInArchive(c, devid, block, fault) ==
    ~Fails(c, fault) /\ block \in c.st.ablk[devid]

\* err: the block could not be opened
openBlock(c, devid, block, fault) ==
    LET c1 == Log(c, "zrangebyscore_ablk", block)
        yes == isBlockInArchive(c1, devid, block, fault)
        c2 == IF Fails(c1, fault) THEN Hit(c1) ELSE c1
        c3 == IF yes THEN loadArchiveBlock(c2, devid, block, fault) ELSE c2
    IN  IF c.thrown THEN Lost(c1)
        ELSE IF c3.err THEN c3
        ELSE
        LET c4 == Log(c3, "readdir", block)
        IN  IF Fails(c4, fault) THEN Fail(Hit(c4))
            ELSE IF devBlockdir(devid, block) \notin c4.st.dirs THEN Fail(c4)
            ELSE [c4 EXCEPT !.opened = Append(@, block)]

\* the names sorted by descending epoch
RECURSIVE SortNamesDesc(_)
SortNamesDesc(names) ==
    IF names = {} THEN << >>
    ELSE LET n == CHOOSE x \in names :
                    \A y \in names : NameEpoch(x) >= NameEpoch(y)
         IN  <<n>> \o SortNamesDesc(names \ {n})

\* fileList: the .dat names of a directory; a call without maxTime is a call
\* with NoTime: timeEpoch is then not truthy either and nothing is filtered
NoTime == Time(0, 0)

filterAndSortFileList(fileList, maxTime) ==
    LET timeEpoch == maxTime.sec
        filtered == {n \in fileList :
                        ~(timeEpoch # 0 /\ NameEpoch(n) > timeEpoch)}
    IN  SortNamesDesc(filtered)

Elems(seq) == {seq[i] : i \in DOMAIN seq}

\* the metrics of a record that the query asks for, tagged with the ticktime
RECURSIVE metricsCopy(_, _, _)
metricsCopy(metrics, metricIdList, ticktime) ==
    IF metrics = << >> THEN << >>
    ELSE LET m == Head(metrics)
             rest == metricsCopy(Tail(metrics), metricIdList, ticktime)
         IN  IF metricIdList = << >> \/ m.id \in Elems(metricIdList)
             THEN <<[id |-> m.id, status |-> m.status, value |-> m.value,
                     scale |-> m.scale, ticktime |-> ticktime]>> \o rest
             ELSE rest

\* the metrics of the copy whose id is not resolved yet are added
RECURSIVE improve(_, _)
improve(resultMetricList, copy) ==
    IF copy = << >> THEN resultMetricList
    ELSE LET m == Head(copy)
         IN  IF m.id \in {r.id : r \in Elems(resultMetricList)}
             THEN improve(resultMetricList, Tail(copy))
             ELSE improve(Append(resultMetricList, m), Tail(copy))

\* err: the file could not be read, its checksum is wrong, or it could
\* not be decoded. decodeDevState calls back with the error of spec.decode
\* and then once more without a record: the second call throws on
\* devState.metrics
copyMetricsFromFile(c, pathname, metricIdList, fault) ==
    LET ticktime == NameEpoch(pathname.name)
        c1 == Log(c, "readFile", ticktime)
        c2 == Log(c1, "chkcrc", ticktime)
        c3 == Log(c2, "decode", ticktime)
    IN  IF c.thrown THEN Lost(c1)
        ELSE IF Fails(c1, fault) THEN Fail(Hit(c1))
        ELSE IF Fails(c2, fault) THEN Fail(Hit(c2))
        ELSE IF Fails(c3, fault) THEN [Fail(Hit(c3)) EXCEPT !.thrown = TRUE]
        ELSE [c3 EXCEPT !.copy = metricsCopy(c.st.files[pathname].metrics,
                                             metricIdList, ticktime)]

\* projectMetricsFromSortedFiles.walkFiles; a file that cannot be read or
\* decoded is logged and adds nothing
RECURSIVE walkFiles(_, _, _, _, _)
walkFiles(c, dir, fileNames, metricIdList, fault) ==
    IF fileNames = << >> THEN c
    ELSE
    LET c1 == copyMetricsFromFile(c, Path(dir, Head(fileNames)),
                                  metricIdList, fault)
        c2 == IF c1.err THEN [c1 EXCEPT !.err = FALSE]
              ELSE [c1 EXCEPT !.result = improve(@, c1.copy)]
    IN  IF ~c1.called THEN c1
        ELSE IF Len(c2.result) < Len(metricIdList)
        THEN walkFiles(c2, dir, Tail(fileNames), metricIdList, fault)
        ELSE c2

RECURSIVE walkBlockList(_, _, _, _, _, _)

\* the walk that goes on with the next block when one cannot be opened
walkBlockList_onward(c, devid, time, metricIdList, list, fault) ==
    IF list = << >> THEN c
    ELSE
    LET b == Head(list)
        dir == devBlockdir(devid, b)
        c1 == openBlock(c, devid, b, fault)
    IN  IF ~c1.called THEN c1
        ELSE IF c1.err
        THEN walkBlockList(
                [c1 EXCEPT !.err = FALSE,
                           !.unopened = Append(@, <<b, Len(c.trace) + 1>>)],
                devid, time, metricIdList, Tail(list), fault)
        ELSE
        LET fileNames == filterAndSortFileList(
                            {f.name : f \in DirFiles(c1.st, dir)}, time)
            c2 == walkFiles(c1, dir, fileNames, metricIdList, fault)
        IN  IF ~c2.called THEN c2
            ELSE IF metricIdList = << >> \/ Len(c2.result) = Len(metricIdList)
            THEN c2
            ELSE walkBlockList(c2, devid, time, metricIdList, Tail(list), fault)

\* projectMetrics.doProjectingInBlocks.walkBlockList
walkBlockList(c, devid, time, metricIdList, list, fault) ==
    IF list = << >> THEN c
    ELSE
    LET b == Head(list)
        dir == devBlockdir(devid, b)
        c1 == openBlock(c, devid, b, fault)
    IN  IF ~c1.called THEN c1
        ELSE IF c1.err
        THEN [c1 EXCEPT !.err = FALSE,
                        !.unopened = Append(@, <<b, Len(c.trace) + 1>>)]
        ELSE
        LET fileNames == filterAndSortFileList(
                            {f.name : f \in DirFiles(c1.st, dir)}, time)
            c2 == walkFiles(c1, dir, fileNames, metricIdList, fault)
        IN  IF ~c2.called THEN c2
            ELSE IF metricIdList = << >> \/ Len(c2.result) = Len(metricIdList)
            THEN c2
            ELSE walkBlockList(c2, devid, time, metricIdList, Tail(list), fault)

projectMetrics(st, devid, time, metricIdList, fault) ==
    LET c1 == Log(Ctx(st), "zrevrangebyscore_blk", devid)
    IN  IF Fails(c1, fault) THEN Fail(Hit(c1))
        ELSE
        LET c2 == walkBlockList(c1, devid, time, metricIdList,
                                getBlocksBackwards(c1.st, devid, time, FALSE), fault)
        IN  IF ~c2.called THEN c2
            ELSE IF Len(c2.result) # 0 /\ Len(c2.result) = Len(metricIdList)
            THEN c2
            ELSE
            LET c3 == Log(c2, "zrevrangebyscore_ablk", devid)
            IN  IF c2.thrown THEN Lost(c3)
                ELSE IF Fails(c3, fault) THEN Hit(c3)
                ELSE walkBlockList(c3, devid, time, metricIdList,
                                   getBlocksBackwards(c3.st, devid, time, TRUE), fault)

(***************************************************************************)
(* The record codec: the bytes of a record (data/dev-state.proto as        *)
(* protobufjs writes and reads it) and its CRC-32 prefix.  A 32-bit        *)
(* unsigned word is kept as two 16-bit halves, [hi, lo].  The store above  *)
(* keeps a record file as the record its buffer decodes to.                *)
(***************************************************************************)
metricSpec ==
    <<[id |-> 1, name |-> "id", type |-> "uint32"],
      [id |-> 2, name |-> "status", type |-> "int32"],
      [id |-> 3, name |-> "value", type |-> "int32"],
      [id |-> 4, name |-> "scale", type |-> "int32"],
      [id |-> 5, name |-> "timestamp", type |-> "uint32"]>>
DevStateSpec ==
    <<[id |-> 1, name |-> "devid", type |-> "uint32"],
      [id |-> 2, name |-> "timestamp", type |-> "uint32"],
      [id |-> 3, name |-> "metrics", type |-> "metric"]>>

\* Writer.uint32: a varint, the low seven bits first
RECURSIVE uint32(_)
uint32(value) ==
    IF value < 128 THEN <<value>>
    ELSE <<128 + (value % 128)>> \o uint32(value \div 128)

\* Writer.int32: a negative value is written as the ten bytes of its
\* 64-bit two's complement
int32(value) ==
    LET RECURSIVE groups(_, _)
        groups(v, k) ==
            IF k = 9 THEN <<v % 2>>
            ELSE <<128 + (v % 128)>> \o groups(v \div 128, k + 1)
    IN  IF value >= 0 THEN uint32(value) ELSE groups(value, 0)

\* the fields of the message that are set, in the order of their ids, each
\* as its tag and its varint
RECURSIVE encodeScalars(_, _)
encodeScalars(spec, m) ==
    IF spec = << >> THEN << >>
    ELSE LET f == Head(spec)
             rest == encodeScalars(Tail(spec), m)
         IN  IF f.name \notin DOMAIN m \/ f.type \notin {"uint32", "int32"}
             THEN rest
             ELSE <<f.id * 8>>
                    \o (IF f.type = "uint32" THEN uint32(m[f.name])
                        ELSE int32(m[f.name]))
                    \o rest

\* spec.encode(spec.fromObject(devState)).finish(): each metric is a
\* length-delimited field 3
encode(devState) ==
    LET RECURSIVE repeated(_)
        repeated(ms) ==
            IF ms = << >> THEN << >>
            ELSE LET b == encodeScalars(metricSpec, Head(ms))
                 IN  <<3 * 8 + 2>> \o uint32(Len(b)) \o b \o repeated(Tail(ms))
    IN  encodeScalars(DevStateSpec, devState) \o repeated(devState.metrics)

\* Reader.uint32 at pos: the low 31 bits and bit 31 of the varint, and the
\* position after it
readVarint(buf, pos) ==
    LET RECURSIVE last7(_)
        last7(p) == IF buf[p] < 128 THEN p ELSE last7(p + 1)
        end == last7(pos)
        g(k) == IF pos + k <= end THEN buf[pos + k] % 128 ELSE 0
    IN  [lo31 |-> g(0) + g(1) * 128 + g(2) * 16384 + g(3) * 2097152
                    + (g(4) % 8) * 268435456,
         top |-> (g(4) \div 8) % 2,
         next |-> end + 1]

\* the value read as uint32 (>>> 0) or as int32 (| 0)
asType(type, v) ==
    IF v.top = 0 THEN v.lo31
    ELSE IF type = "int32" THEN (v.lo31 - 1073741824) - 1073741824
    ELSE (v.lo31 + 1073741824) + 1073741824

\* the generated decoder of a message type: the scalar fields read are set
\* on m, a field the type does not declare is skipped
RECURSIVE decodeScalars(_, _, _, _)
decodeScalars(spec, buf, pos, m) ==
    IF pos > Len(buf) THEN m
    ELSE
    LET tag == readVarint(buf, pos)
        field == tag.lo31 \div 8
        wire == tag.lo31 % 8
        v == readVarint(buf, tag.next)
        known == {k \in DOMAIN spec : spec[k].id = field
                                        /\ spec[k].type \in {"uint32", "int32"}}
    IN  IF wire = 2
        THEN decodeScalars(spec, buf, v.next + v.lo31, m)
        ELSE IF known = {}
        THEN decodeScalars(spec, buf, v.next, m)
        ELSE LET f == spec[CHOOSE k \in known : TRUE]
             IN  decodeScalars(spec, buf, v.next,
                               [n \in DOMAIN m \cup {f.name} |->
                                    IF n = f.name THEN asType(f.type, v)
                                    ELSE m[n]])

\* spec.decode(data): metrics is set on every decoded DevState, and each
\* field 3 adds the metric decoded from its bytes
decode(data) ==
    LET NoFields == [n \in {} |-> 0]
        RECURSIVE repeated(_)
        repeated(pos) ==
            IF pos > Len(data) THEN << >>
            ELSE
            LET tag == readVarint(data, pos)
                v == readVarint(data, tag.next)
            IN  IF tag.lo31 = 3 * 8 + 2
                THEN <<decodeScalars(metricSpec,
                                     SubSeq(data, v.next, v.next + v.lo31 - 1),
                                     1, NoFields)>>
                        \o repeated(v.next + v.lo31)
                ELSE IF tag.lo31 % 8 = 2 THEN repeated(v.next + v.lo31)
                ELSE repeated(v.next)
        scalars == decodeScalars(DevStateSpec, data, 1, NoFields)
    IN  [n \in DOMAIN scalars \cup {"metrics"} |->
            IF n = "metrics" THEN repeated(1) ELSE scalars[n]]

\* the exclusive or of two words
xorWord(x, y) ==
    LET RECURSIVE xor(_, _, _)
        xor(a, b, n) ==
            IF n = 0 THEN 0
            ELSE ((a + b) % 2) + 2 * xor(a \div 2, b \div 2, n - 1)
    IN  [hi |-> xor(x.hi, y.hi, 16), lo |-> xor(x.lo, y.lo, 16)]

\* n steps of the bitwise CRC-32 (reflected polynomial EDB88320)
RECURSIVE crcBits(_, _)
crcBits(c, n) ==
    LET shr == [hi |-> c.hi \div 2, lo |-> (c.lo \div 2) + (c.hi % 2) * 32768]
    IN  IF n = 0 THEN c
        ELSE IF c.lo % 2 = 1
        THEN crcBits(xorWord(shr, [hi |-> 60856, lo |-> 33568]), n - 1)
        ELSE crcBits(shr, n - 1)

\* the register after the bytes of buf, taken in order (the test of
\* first.hi only has the first half evaluated before the second)
RECURSIVE crcBytes(_, _)
crcBytes(c, buf) ==
    LET half == Len(buf) \div 2
        first == crcBytes(c, SubSeq(buf, 1, half))
    IN  IF buf = << >> THEN c
        ELSE IF Len(buf) = 1
        THEN crcBits(xorWord(c, [hi |-> 0, lo |-> buf[1]]), 8)
        ELSE IF first.hi >= 0
        THEN crcBytes(first, SubSeq(buf, half + 1, Len(buf)))
        ELSE first

\* crc32(data) of the crc package: the CRC-32 of the bytes, unsigned
crc32(data) ==
    LET ones == [hi |-> 65535, lo |-> 65535]
    IN  xorWord(crcBytes(ones, data), ones)

\* the operand of >>: the word as a signed 32-bit integer
ToInt32(word) ==
    (IF word.hi >= 32768 THEN word.hi - 65536 ELSE word.hi) * 65536 + word.lo

\* chksumArray[i] = chksum >> 8 * (chksumArray.length - 1 - i), each stored
\* in a Uint8Array
chksumArray(chksum) ==
    [i \in 1..4 |->
        (ToInt32(chksum) \div
            (CASE i = 1 -> 16777216 [] i = 2 -> 65536 [] i = 3 -> 256
               [] i = 4 -> 1)) % 256]

\* Buffer.concat([chksumArray, encoded])
serializedBuffer(devState) ==
    LET encoded == encode(devState)
    IN  chksumArray(crc32(encoded)) \o encoded

\* the check against a crc32 that returns a signed integer
chkcrc_signed(crc32Array, data) ==
    LET chksum == [hi |-> crc32Array[1] * 256 + crc32Array[2],
                   lo |-> crc32Array[3] * 256 + crc32Array[4]]
    IN  chksum = crc32(data) /\ ToInt32(crc32(data)) >= 0

\* chksum = chksum * 256 + crc32Array[i] over the four bytes, compared with
\* crc32(data)
chkcrc(crc32Array, data) ==
    LET chksum == [hi |-> crc32Array[1] * 256 + crc32Array[2],
                   lo |-> crc32Array[3] * 256 + crc32Array[4]]
    IN  chksum = crc32(data)

(***************************************************************************)
(* The time span of a device.                                              *)
(***************************************************************************)
\* files: what readdir lists, the record files and the temp files; the
\* record names sorted by descending epoch; when the directory holds no
\* record file the element read is undefined and its split throws; result:
\* the epoch second of the Date handed to the callback
getMinTimeInBlock(c, devid, block, fault) ==
    LET c1 == openBlock(c, devid, block, fault)
        dir == devBlockdir(devid, block)
        names == filterAndSortFileList({f.name : f \in DirFiles(c1.st, dir)},
                                       NoTime)
    IN  IF c1.err THEN c1
        ELSE IF DirFiles(c1.st, dir) \cup DirTmps(c1.st, dir) = {} THEN Fail(c1)
        ELSE IF names = << >> THEN [Lost(c1) EXCEPT !.thrown = TRUE]
        ELSE [c1 EXCEPT !.result = Append(@, NameEpoch(names[Len(names)]))]

getMaxTimeInBlock(c, devid, block, fault) ==
    LET c1 == openBlock(c, devid, block, fault)
        dir == devBlockdir(devid, block)
        names == filterAndSortFileList({f.name : f \in DirFiles(c1.st, dir)},
                                       NoTime)
    IN  IF c1.err THEN c1
        ELSE IF DirFiles(c1.st, dir) \cup DirTmps(c1.st, dir) = {} THEN Fail(c1)
        ELSE IF names = << >> THEN [Lost(c1) EXCEPT !.thrown = TRUE]
        ELSE [c1 EXCEPT !.result = Append(@, NameEpoch(names[1]))]

\* result: <<min, max>>
getDeviceTimeSpan(st, devid, fault) ==
    LET c1 == Log(Ctx(st), "zrange_blk", devid)
    IN  IF Fails(c1, fault) THEN Fail(Hit(c1))
        ELSE IF st.blk[devid] = {} THEN Fail(c1)
        ELSE
        LET c2 == Log(c1, "zrevrange_blk", devid)
            blockMax == SetMax(st.blk[devid])
        IN  IF Fails(c2, fault) THEN Fail(Hit(c2))
            ELSE
            LET c3 == Log(c2, "zrange_ablk", devid)
                blockMin == IF st.ablk[devid] # {} THEN SetMin(st.ablk[devid])
                            ELSE SetMin(st.blk[devid])
            IN  IF Fails(c3, fault) THEN Fail(Hit(c3))
                ELSE
                LET c4 == getMinTimeInBlock(c3, devid, blockMin, fault)
                IN  IF c4.err \/ ~c4.called THEN c4
                    ELSE getMaxTimeInBlock(c4, devid, blockMax, fault)

(***************************************************************************)
(* The handlers command by command: every file-system call, index-store    *)
(* command and subprocess is issued from the callback of the one before,   *)
(* so that the commands of another call in flight can take effect between  *)
(* any two of them.  A call in flight is a record: pc is the command it    *)
(* issues next, the other fields are the closure variables of the handler. *)
(***************************************************************************)
PutProc(devid, ticktime, devState) ==
    [op |-> "put", pc |-> "access", devid |-> devid, ticktime |-> ticktime,
     devState |-> devState, newFile |-> FALSE, k |-> 1, modified |-> FALSE,
     err |-> FALSE]

\* one command of putDevState takes effect and its callback runs
putDevStateStep(st, p) ==
    LET fn == devStateFilename(p.devid, p.ticktime)
        t == p.ticktime.sec
        metrics == p.devState.metrics
        key == p.devid
        afterMetrics == IF p.modified THEN "hget_ticktime" ELSE "zadd_blk"
    IN  CASE p.pc = "access" ->
                [st |-> st,
                 p |-> [p EXCEPT !.newFile = fn \notin DOMAIN st.files,
                                 !.pc = "mkdirp"]]
          [] p.pc = "mkdirp" ->
                [st |-> [st EXCEPT !.dirs = @ \cup {fn.dir}],
                 p |-> [p EXCEPT !.pc = "writeFile"]]
          [] p.pc = "writeFile" ->
                IF fn.dir \notin st.dirs
                THEN [st |-> st, p |-> [p EXCEPT !.pc = "done", !.err = TRUE]]
                ELSE [st |-> [st EXCEPT !.tmps = @ \cup {fn}],
                      p |-> [p EXCEPT !.pc = "rename"]]
          [] p.pc = "rename" ->
                [st |-> IF fn \notin st.tmps THEN st
                        ELSE [st EXCEPT
                                !.files = [f \in DOMAIN @ \cup {fn} |->
                                            IF f = fn
                                            THEN serializeDevState(p.devState)
                                            ELSE @[f]],
                                !.tmps = @ \ {fn}],
                 p |-> [p EXCEPT !.pc = IF metrics = << >> THEN "zadd_blk"
                                        ELSE "hget"]]
          [] p.pc = "hget" ->
                LET thatTime == hget(st.lgv[key],
                                     Field(metrics[p.k].id, "ticktime"))
                IN  [st |-> st,
                     p |-> [p EXCEPT !.pc = IF KeepStored(thatTime, t)
                                            THEN afterMetrics ELSE "hmset"]]
          [] p.pc = "hmset" ->
                [st |-> [st EXCEPT !.lgv[key] =
                            hmset(@, updateMetric(metrics[p.k], t))],
                 p |-> [p EXCEPT !.modified = TRUE,
                                 !.k = @ + 1,
                                 !.pc = IF p.k = Len(metrics)
                                        THEN "hget_ticktime" ELSE "hget"]]
          [] p.pc = "hget_ticktime" ->
                LET lasttime == hget(st.lgv[key], TicktimeField)
                IN  [st |-> st,
                     p |-> [p EXCEPT !.pc = IF KeepLasttime(lasttime, t)
                                            THEN "zadd_blk"
                                            ELSE "hset_ticktime"]]
          [] p.pc = "hset_ticktime" ->
                [st |-> [st EXCEPT !.lgv[key] =
                            hmset(@, [f \in {TicktimeField} |-> t])],
                 p |-> [p EXCEPT !.pc = "zadd_blk"]]
          [] p.pc = "zadd_blk" ->
                [st |-> [st EXCEPT !.blk[key] =
                            zadd(@, timeToBlockindex(p.ticktime))],
                 p |-> [p EXCEPT !.pc = IF p.newFile THEN "zadd_devices"
                                        ELSE "done"]]
          [] p.pc = "zadd_devices" ->
                [st |-> [st EXCEPT !.devices = zadd(@, key)],
                 p |-> [p EXCEPT !.pc = "done"]]

HousekeepingProc(now, options) ==
    [op |-> "housekeeping", pc |-> "zrange_devices", now |-> now,
     options |-> options, devList |-> << >>, blocks |-> << >>, nremove |-> 0,
     err |-> FALSE]

\* one command of housekeeping takes effect and its callback runs; the
\* commands of the archive step carry the suffix _a
housekeepingStep(st, h) ==
    LET devid == Head(h.devList)
        block == Head(h.blocks)
        \* processDevices(devList.slice(1)) of removeBlocksAfter, and what
        \* housekeeping does when the prune step has called back
        nextPruned == IF Tail(h.devList) # << >>
                      THEN [h EXCEPT !.devList = Tail(@),
                                     !.pc = "zrangebyscore_blk"]
                      ELSE IF SkipArchive(h.options)
                      THEN [h EXCEPT !.devList = << >>, !.pc = "done"]
                      ELSE [h EXCEPT !.devList = << >>,
                                     !.pc = "zrange_devices_a"]
        \* processList(devList.slice(1)) of archiveAgedBlocks
        nextArchived == IF Tail(h.devList) # << >>
                        THEN [h EXCEPT !.devList = Tail(@), !.pc = "zcard_blk"]
                        ELSE [h EXCEPT !.devList = << >>, !.pc = "done"]
    IN  CASE h.pc = "zrange_devices" ->
                LET devList == Ascending(st.devices)
                IN  [st |-> st,
                     p |-> IF devList # << >>
                           THEN [h EXCEPT !.devList = devList,
                                          !.pc = "zrangebyscore_blk"]
                           ELSE IF SkipArchive(h.options)
                           THEN [h EXCEPT !.pc = "done"]
                           ELSE [h EXCEPT !.pc = "zrange_devices_a"]]
          [] h.pc = "zrangebyscore_blk" ->
                LET blockList ==
                        Ascending({b \in st.blk[devid] :
                                    b > timeToBlockindex(h.now)})
                IN  [st |-> st,
                     p |-> IF blockList = << >> THEN nextPruned
                           ELSE [h EXCEPT !.blocks = blockList,
                                          !.pc = "zrem_blk"]]
          [] h.pc = "zrem_blk" ->
                [st |-> [st EXCEPT !.blk[devid] = zrem(@, block)],
                 p |-> [h EXCEPT !.pc = "rm"]]
          [] h.pc = "rm" ->
                [st |-> rmrf(st, devBlockdir(devid, block)),
                 p |-> IF Tail(h.blocks) = << >>
                       THEN [nextPruned EXCEPT !.blocks = << >>]
                       ELSE [h EXCEPT !.blocks = Tail(@), !.pc = "zrem_blk"]]
          [] h.pc = "zrange_devices_a" ->
                LET devList == Ascending(st.devices)
                IN  [st |-> st,
                     p |-> IF devList = << >> THEN [h EXCEPT !.pc = "done"]
                           ELSE [h EXCEPT !.devList = devList,
                                          !.pc = "zcard_blk"]]
          [] h.pc = "zcard_blk" ->
                LET length == Cardinality(st.blk[devid])
                IN  [st |-> st,
                     p |-> IF length = 0 \/ length - h.options.level1Blocks <= 0
                           THEN nextArchived
                           ELSE [h EXCEPT
                                    !.nremove = length - h.options.level1Blocks,
                                    !.pc = "zrange_blk"]]
          [] h.pc = "zrange_blk" ->
                LET blockList == Take(Ascending(st.blk[devid]), h.nremove)
                IN  [st |-> st,
                     p |-> IF blockList = << >> THEN nextArchived
                           ELSE [h EXCEPT !.blocks = blockList,
                                          !.pc = "tar_czf"]]
          [] h.pc = "tar_czf" ->
                [st |-> [st EXCEPT !.tgz =
                            [k \in DOMAIN @ \cup {<<devid, block>>} |->
                                IF k = <<devid, block>>
                                THEN Pack(st, devBlockdir(devid, block))
                                ELSE @[k]]],
                 p |-> [h EXCEPT !.pc = "zrem_blk_a"]]
          [] h.pc = "zrem_blk_a" ->
                [st |-> [st EXCEPT !.blk[devid] = zrem(@, block)],
                 p |-> [h EXCEPT !.pc = "rm_a"]]
          [] h.pc = "rm_a" ->
                [st |-> rmrf(st, devBlockdir(devid, block)),
                 p |-> [h EXCEPT !.pc = "zadd_ablk"]]
          [] h.pc = "zadd_ablk" ->
                [st |-> [st EXCEPT !.ablk[devid] = zadd(@, block)],
                 p |-> IF Tail(h.blocks) = << >>
                       THEN [nextArchived EXCEPT !.blocks = << >>]
                       ELSE [h EXCEPT !.blocks = Tail(@), !.pc = "tar_czf"]]

(***************************************************************************)
(* The last good value of a device.                                        *)
(***************************************************************************)
\* now: the value of new Date(); fm:lgv is not read
getDeviceLastGoodValue(st, devid, now) ==
    [Ctx(st) EXCEPT !.result = [lastTicktime |-> now, metrics |-> << >>]]

(***************************************************************************)
(* Actions                                                                 *)
(***************************************************************************)
SetStore(st) ==
    /\ files' = st.files
    /\ tmps' = st.tmps
    /\ dirs' = st.dirs
    /\ tgz' = st.tgz
    /\ devices' = st.devices
    /\ blk' = st.blk
    /\ ablk' = st.ablk
    /\ lgv' = st.lgv

Count(fault) == IF fault = NoFault THEN 0 ELSE 1

\* the faults a call may be given: none, or one of F while failures remain
Faults(F) == {NoFault} \cup {f \in F : nFaults < MaxFaults}

Init ==
    /\ files = [f \in {} |-> 0]
    /\ tmps = {}
    /\ dirs = {}
    /\ tgz = [a \in {} |-> 0]
    /\ devices = {}
    /\ blk = [d \in Devs |-> {}]
    /\ ablk = [d \in Devs |-> {}]
    /\ lgv = [d \in Devs |-> EmptyHash]
    /\ last = [op |-> "init"]
    /\ nOps = 0
    /\ nFaults = 0
    /\ written = {}
    /\ allPutsOk = TRUE
    /\ pending = << >>

PutCall(D, T, L, F) ==
    /\ \E devid \in D, ticktime \in T, metrics \in L, fault \in Faults(F) :
        LET devState == [devid |-> devid, timestamp |-> ticktime.sec,
                         metrics |-> metrics]
        IN
        \E c \in {putDevState(Store, devid, ticktime, devState, fault)} :
            /\ SetStore(c.st)
            /\ last' = [op |-> "put", devid |-> devid, ticktime |-> ticktime,
                        devState |-> devState, fault |-> fault,
                        err |-> c.err, trace |-> c.trace,
                        failedAt |-> c.failedAt, newFile |-> c.newFile,
                        renamed |-> c.renamed,
                        existed |-> devStateFilename(devid, ticktime)
                                        \in DOMAIN files,
                        stored |-> [k \in DOMAIN metrics |->
                                      hget(lgv[devid],
                                           Field(metrics[k].id, "ticktime"))],
                        repeat |-> /\ last.op = "put"
                                   /\ last.devid = devid
                                   /\ last.ticktime = ticktime
                                   /\ last.devState = devState
                                   /\ ~last.err]
            /\ nOps' = nOps + 1
            /\ nFaults' = nFaults + Count(fault)
            /\ written' = IF c.err THEN written
                          ELSE written \cup
                               {<<devid, metrics[k].id, ticktime.sec,
                                  metrics[k].value>> : k \in DOMAIN metrics}
            /\ allPutsOk' = (allPutsOk /\ ~c.err)
            /\ pending' = pending

HousekeepingCall(N, O, F) ==
    /\ \E now \in N, options \in O, fault \in Faults(F) :
        \E c \in {housekeeping(Store, now, options, fault)} :
            /\ SetStore(c.st)
            /\ last' = [op |-> "housekeeping", now |-> now, options |-> options,
                        fault |-> fault, err |-> c.err, called |-> c.called,
                        trace |-> c.trace, failedAt |-> c.failedAt,
                        archived |-> c.archived]
            /\ nOps' = nOps + 1
            /\ nFaults' = nFaults + Count(fault)
            /\ UNCHANGED <<written, allPutsOk, pending>>

ProjectCall(D, T, L, F) ==
    /\ \E devid \in D, time \in T, metricIdList \in L, fault \in Faults(F) :
        \E c \in {projectMetrics(Store, devid, time, metricIdList, fault)} :
            /\ SetStore(c.st)
            /\ last' = [op |-> "project", devid |-> devid, time |-> time,
                        metricIdList |-> metricIdList, fault |-> fault,
                        err |-> c.err, result |-> c.result,
                        called |-> c.called, thrown |-> c.thrown,
                        unopened |-> c.unopened,
                        opened |-> c.opened, extracted |-> c.extracted,
                        trace |-> c.trace, failedAt |-> c.failedAt]
            /\ nOps' = nOps + 1
            /\ nFaults' = nFaults + Count(fault)
            /\ UNCHANGED <<written, allPutsOk, pending>>

LastGoodValueCall(D, N) ==
    /\ \E devid \in D, now \in N :
        \E c \in {getDeviceLastGoodValue(Store, devid, now)} :
            /\ SetStore(c.st)
            /\ last' = [op |-> "lgv", devid |-> devid, now |-> now,
                        err |-> c.err, called |-> c.called,
                        result |-> c.result]
            /\ nOps' = nOps + 1
            /\ UNCHANGED <<nFaults, written, allPutsOk, pending>>

TimeSpanCall(D, F) ==
    /\ \E devid \in D, fault \in Faults(F) :
        \E c \in {getDeviceTimeSpan(Store, devid, fault)} :
            /\ SetStore(c.st)
            /\ last' = [op |-> "timespan", devid |-> devid, fault |-> fault,
                        err |-> c.err, called |-> c.called,
                        thrown |-> c.thrown, result |-> c.result,
                        opened |-> c.opened, extracted |-> c.extracted,
                        trace |-> c.trace, failedAt |-> c.failedAt]
            /\ nOps' = nOps + 1
            /\ nFaults' = nFaults + Count(fault)
            /\ UNCHANGED <<written, allPutsOk, pending>>

\* the calls of a run of at most MaxOps calls
PutIn(D, T, L, F) == nOps < MaxOps /\ PutCall(D, T, L, F)
HousekeepingIn(N, O, F) == nOps < MaxOps /\ HousekeepingCall(N, O, F)
ProjectIn(D, T, L, F) == nOps < MaxOps /\ ProjectCall(D, T, L, F)

PutDevState == PutIn(Devs, Ticks, MetricLists, PutFaults)
Housekeeping == HousekeepingIn(Nows, HkOptions, HkFaults)
ProjectMetrics == ProjectIn(Devs, Ticks, IdLists, ProjectFaults)

Next ==
    \/ PutDevState
    \/ Housekeeping
    \/ ProjectMetrics

Spec == Init /\ [][Next]_vars

(***************************************************************************)
(* Longer runs of one device: records in two blocks, housekeeping that     *)
(* prunes and archives, projections that walk live and archived blocks.    *)
(***************************************************************************)
DeepDevs == {1}
DeepLists == {<< >>, <<Metric(1, 10)>>, <<Metric(1, 10), Metric(2, 10)>>}
DeepOptions == {[level1Blocks |-> 1], [level1Blocks |-> -1]}
DeepHkFaults == {<<"zrem_blk", 1>>, <<"tar_czf", 1>>, <<"zadd_ablk", 1>>}
DeepIdLists == {<< >>, <<1>>, <<1, 2>>}

PutDeep == nOps < MaxDeep /\ PutCall(DeepDevs, Ticks, DeepLists, {})
HousekeepingDeep ==
    nOps < MaxDeep /\ HousekeepingCall(Nows, DeepOptions, DeepHkFaults)
ProjectDeep == nOps < MaxDeep /\ ProjectCall(DeepDevs, Ticks, DeepIdLists, {})

NextDeep ==
    \/ PutDeep
    \/ HousekeepingDeep
    \/ ProjectDeep

SpecDeep == Init /\ [][NextDeep]_vars

(***************************************************************************)
(* Longer runs of two devices with records in up to three blocks, and      *)
(* housekeeping that keeps one or two blocks per device.                   *)
(***************************************************************************)
AgedTicks == {Time(1700000000, 0), Time(1700006400, 0), Time(1700013600, 0)}
AgedLists == {<<Metric(1, 10)>>}
AgedOptions == {[level1Blocks |-> 1], [level1Blocks |-> 2]}

PutAged == nOps < MaxDeep /\ PutCall(Devs, AgedTicks, AgedLists, {})
HousekeepingAged ==
    nOps < MaxDeep /\ HousekeepingCall(Nows, AgedOptions, HkFaults)

NextAged ==
    \/ PutAged
    \/ HousekeepingAged

SpecAged == Init /\ [][NextAged]_vars

(***************************************************************************)
(* Runs of one device with records in four blocks: housekeeping archives   *)
(* more blocks than a projection may open.                                 *)
(***************************************************************************)
TravelTicks ==
    {Time(1700000000, 0), Time(1700006400, 0), Time(1700013600, 0),
     Time(1700020800, 0)}
TravelLists == {<< >>}
TravelNows == {Time(1700020800, 0)}
TravelOptions == {[level1Blocks |-> 1]}
TravelTimes == {Time(1700020800, 0)}
TravelIdLists == {<<1>>}

PutTravel == nOps < MaxTravel /\ PutCall(DeepDevs, TravelTicks, TravelLists, {})
HousekeepingTravel ==
    nOps < MaxTravel /\ HousekeepingCall(TravelNows, TravelOptions, {})
ProjectTravel ==
    nOps < MaxTravel
    /\ ProjectCall(DeepDevs, TravelTimes, TravelIdLists, ProjectFaults)

NextTravel ==
    \/ PutTravel
    \/ HousekeepingTravel
    \/ ProjectTravel

SpecTravel == Init /\ [][NextTravel]_vars

(***************************************************************************)
(* Runs of one device in which a projection meets a record file it cannot  *)
(* read, whose checksum is wrong, or which does not decode, or in which a  *)
(* write fails at the block index, after its file was renamed; the last    *)
(* good value of the device is asked for in between.                       *)
(***************************************************************************)
IndexFaults == {<<"zadd_blk", 1>>}
ReadFaults ==
    {<<"readFile", 1>>, <<"chkcrc", 1>>, <<"chkcrc", 2>>, <<"decode", 1>>}

PutRead == nOps < MaxRead /\ PutCall(DeepDevs, Ticks, DeepLists, IndexFaults)
ProjectRead ==
    nOps < MaxRead /\ ProjectCall(DeepDevs, Ticks, DeepIdLists, ReadFaults)

LastGoodValueRead == nOps < MaxRead /\ LastGoodValueCall(DeepDevs, Nows)

NextRead ==
    \/ PutRead
    \/ ProjectRead
    \/ LastGoodValueRead

SpecRead == Init /\ [][NextRead]_vars

(***************************************************************************)
(* The block clock on its own: the block indexes of two instants, the      *)
(* second not before the first, for each blockHours the environment may    *)
(* set (FM_HOURS_PER_BLOCK, a whole number of hours).                       *)
(***************************************************************************)
\* instants on both sides of an hour, a block, a day, a month, a leap day
\* and a year
ClockTimes ==
    {Time(s, 0) : s \in {1700000000, 1700002799, 1700002800, 1700006399,
                         1700006400, 1701388799, 1701388800, 1704067199,
                         1704067200, 1709164799, 1709164800, 1709251200}}

BlockindexClock ==
    /\ nOps < MaxClock
    /\ \E hours \in 1..24, t1 \in ClockTimes, t2 \in ClockTimes :
        /\ t1.sec <= t2.sec
        /\ last' = [op |-> "blockindex", hours |-> hours, t1 |-> t1, t2 |-> t2,
                    b1 |-> timeToBlockindexAt(hours, t1),
                    b2 |-> timeToBlockindexAt(hours, t2)]
    /\ nOps' = nOps + 1
    /\ UNCHANGED <<files, tmps, dirs, tgz, devices, blk, ablk, lgv, nFaults,
                   written, allPutsOk, pending>>

SpecClock == Init /\ [][BlockindexClock]_vars

(***************************************************************************)
(* Runs of device 7: writes at 2023-11-14T22:13:20Z, half a second later   *)
(* and a minute later.                                                     *)
(***************************************************************************)
ExampleDevs == {7}
ExampleTicks ==
    {Time(1700000000, 0), Time(1700000000, 500), Time(1700000060, 0)}
ExampleLists ==
    {<< >>, <<Metric(1, 100)>>, <<Metric(1, 10)>>,
     <<[id |-> 1, status |-> 0, value |-> 10, scale |-> 0,
        timestamp |-> 1699999990]>>}

InitExample ==
    /\ files = [f \in {} |-> 0]
    /\ tmps = {}
    /\ dirs = {}
    /\ tgz = [a \in {} |-> 0]
    /\ devices = {}
    /\ blk = [d \in ExampleDevs |-> {}]
    /\ ablk = [d \in ExampleDevs |-> {}]
    /\ lgv = [d \in ExampleDevs |-> EmptyHash]
    /\ last = [op |-> "init"]
    /\ nOps = 0
    /\ nFaults = 0
    /\ written = {}
    /\ allPutsOk = TRUE
    /\ pending = << >>

PutExample ==
    nOps < MaxExample /\ PutCall(ExampleDevs, ExampleTicks, ExampleLists, {})

SpecExample == InitExample /\ [][PutExample]_vars

(***************************************************************************)
(* The codec on its own: a record is serialized, and the buffer is read    *)
(* back as copyMetricsFromFile reads a file.                               *)
(***************************************************************************)
CodecStates ==
    LET ms == {[id |-> 1, status |-> 0, value |-> 100, scale |-> 0],
               [id |-> 2, status |-> -1, value |-> -5000, scale |-> -5],
               [id |-> 60, status |-> 0, value |-> 4999, scale |-> 5,
                timestamp |-> 1699999000]}
        lists == {<< >>} \cup {<<a>> : a \in ms}
                    \cup {<<a, b>> : a \in ms, b \in ms}
    IN  {[devid |-> d, timestamp |-> t, metrics |-> l] :
            d \in {1, 7, 300}, t \in {0, 1700000000}, l \in lists}

SerializeCodec ==
    /\ nOps < MaxCodec
    /\ \E devState \in CodecStates :
        last' = [op |-> "serialize", devState |-> devState,
                 buf |-> serializedBuffer(devState)]
    /\ nOps' = nOps + 1
    /\ UNCHANGED <<files, tmps, dirs, tgz, devices, blk, ablk, lgv, nFaults,
                   written, allPutsOk, pending>>

ReadCodec ==
    /\ last.op = "serialize"
    /\ LET crc32Array == SubSeq(last.buf, 1, 4)
           data == SubSeq(last.buf, 5, Len(last.buf))
       IN  last' = [op |-> "read", devState |-> last.devState,
                    buf |-> last.buf,
                    accepted |-> chkcrc(crc32Array, data),
                    decoded |-> decode(data)]
    /\ UNCHANGED <<files, tmps, dirs, tgz, devices, blk, ablk, lgv, nOps,
                   nFaults, written, allPutsOk, pending>>

SpecCodec == Init /\ [][SerializeCodec \/ ReadCodec]_vars

(***************************************************************************)
(* Runs of one device with records in three blocks in which a projection   *)
(* meets a block it cannot open: the listing of its directory fails, the   *)
(* directory is gone, or its archive cannot be extracted.                  *)
(***************************************************************************)
OpenLists == {<<Metric(1, 10)>>, <<Metric(2, 10)>>}
OpenNows == {Time(1700013600, 0)}
OpenOptions == {[level1Blocks |-> 1]}
OpenHkFaults == {<<"tar_czf", 1>>, <<"zrem_blk", 1>>}
OpenTimes == {Time(1700013600, 0)}
OpenIdLists == {<< >>, <<1, 2>>}
OpenFaults == {<<"tar_xzf", 1>>, <<"readdir", 1>>, <<"readdir", 2>>}

PutOpen ==
    /\ nOps < MaxOpen
    /\ PutCall(DeepDevs, AgedTicks \cup {Time(1700000060, 0)}, OpenLists, {})
HousekeepingOpen ==
    nOps < MaxOpen /\ HousekeepingCall(OpenNows, OpenOptions, OpenHkFaults)
ProjectOpen ==
    nOps < MaxOpen /\ ProjectCall(DeepDevs, OpenTimes, OpenIdLists, OpenFaults)

TimeSpanOpen == nOps < MaxOpen /\ TimeSpanCall(DeepDevs, {})

NextOpen ==
    \/ PutOpen
    \/ HousekeepingOpen
    \/ ProjectOpen
    \/ TimeSpanOpen

SpecOpen == Init /\ [][NextOpen]_vars

(***************************************************************************)
(* Two calls in flight at once: after at most MaxRace - 2 calls made one   *)
(* after another, a putDevState and either a second putDevState or a       *)
(* housekeeping are started together, and their commands take effect in    *)
(* any order that keeps the order of each call.                            *)
(***************************************************************************)
PutRace ==
    /\ pending = << >> /\ nOps < MaxRace - 2
    /\ PutCall(DeepDevs, Ticks, AgedLists, {})
HousekeepingRace ==
    /\ pending = << >> /\ nOps < MaxRace - 2
    /\ HousekeepingCall(Nows, OpenOptions, {})

StartRace ==
    /\ pending = << >>
    /\ \E devid \in DeepDevs, ticktime \in Ticks, metrics \in AgedLists :
        \E other \in
            {PutProc(devid, t, [devid |-> devid, timestamp |-> t.sec,
                                metrics |-> metrics]) : t \in Ticks}
            \cup {HousekeepingProc(now, options) :
                    now \in Nows, options \in OpenOptions} :
            pending' = <<PutProc(devid, ticktime,
                                 [devid |-> devid, timestamp |-> ticktime.sec,
                                  metrics |-> metrics]),
                         other>>
    /\ nOps' = nOps + 2
    /\ UNCHANGED <<files, tmps, dirs, tgz, devices, blk, ablk, lgv, last,
                   nFaults, written, allPutsOk>>

\* the next command of call i in flight has taken effect: r is the store
\* and the call after it
Advance(i, r) ==
    /\ SetStore(r.st)
    /\ pending' = [pending EXCEPT ![i] = r.p]
    /\ UNCHANGED <<last, nOps, nFaults, written, allPutsOk>>

PutStepRace ==
    \E i \in DOMAIN pending :
        /\ pending[i].op = "put" /\ pending[i].pc # "done"
        /\ Advance(i, putDevStateStep(Store, pending[i]))

HousekeepingStepRace ==
    \E i \in DOMAIN pending :
        /\ pending[i].op = "housekeeping" /\ pending[i].pc # "done"
        /\ Advance(i, housekeepingStep(Store, pending[i]))

NextRace ==
    \/ PutRace
    \/ HousekeepingRace
    \/ StartRace
    \/ PutStepRace
    \/ HousekeepingStepRace

SpecRace == Init /\ [][NextRace]_vars

(***************************************************************************)
(* Vocabulary of the properties.                                           *)
(***************************************************************************)
\* the step just taken is a putDevState call
PutStep == nOps' = nOps + 1 /\ last'.op = "put"

\* every command of A in the trace is issued before every command of B
Before(tr, A, B) ==
    \A i, j \in DOMAIN tr : tr[i][1] \in A /\ tr[j][1] \in B => i < j
Issued(tr, A) == \E i \in DOMAIN tr : tr[i][1] \in A

FileCmds == {"access", "mkdirp", "writeFile", "rename"}
LgvCmds == {"hget", "hmset", "hget_ticktime", "hset_ticktime"}
LgvWrites == {"hmset", "hset_ticktime"}

\* the command of the call that reported an error
FailedCmd(l) == IF l.failedAt = 0 THEN "none" ELSE l.trace[l.failedAt][1]

\* the stored <id>_ticktime of a device (Nil: absent)
LgvTick(h, devid, id) == hget(h[devid], Field(id, "ticktime"))

\* the stored fields of one metric
MetricFields(h, devid, id) ==
    [f \in {g \in DOMAIN h[devid] : g[1] = id} |-> h[devid][f]]

\* metric k of the record was looked up (its hget succeeded) during the call
Processed(l, k) ==
    \E p \in DOMAIN l.trace :
        /\ l.trace[p] = <<"hget", l.devState.metrics[k].id>>
        /\ l.failedAt # p

\* the hmset of metric k of the record was issued and succeeded
Overwritten(l, k) ==
    \E p \in DOMAIN l.trace :
        /\ l.trace[p] = <<"hmset", l.devState.metrics[k].id>>
        /\ l.failedAt # p

(***************************************************************************)
(* C1: after a putDevState that returns without error, blockIndex(tt) is   *)
(* in fm:blk:<d> and d is in fm:devices.                                   *)
(***************************************************************************)
C1_BlockMembership ==
    (last.op = "put" /\ ~last.err) =>
        /\ timeToBlockindex(last.ticktime) \in blk[last.devid]
        /\ last.devid \in devices

(***************************************************************************)
(* C2: when the rename fails, putDevState returns an error and leaves      *)
(* fm:blk, fm:devices and fm:lgv as they were; a putDevState that returns  *)
(* success has renamed the record file into place.                         *)
(***************************************************************************)
C2_RenameIsCommitPoint ==
    [][PutStep =>
        /\ FailedCmd(last') = "rename" =>
                last'.err /\ blk' = blk /\ devices' = devices /\ lgv' = lgv
        /\ ~last'.err => last'.renamed]_vars

(***************************************************************************)
(* C3 as stated: in one putDevState the rename comes first, then the       *)
(* fm:blk add, then the fm:lgv update, then the fm:devices add (stated for *)
(* runs in which no command fails).                                        *)
(***************************************************************************)
C3_OrderAsStated ==
    (last.op = "put" /\ nFaults = 0) =>
        /\ Before(last.trace, {"rename"}, {"zadd_blk"})
        /\ Before(last.trace, {"zadd_blk"}, LgvWrites)
        /\ Before(last.trace, LgvWrites, {"zadd_devices"})

(***************************************************************************)
(* C3 amended: in one putDevState the rename comes first, then the fm:lgv  *)
(* update, then the fm:blk add, then the fm:devices add.                   *)
(***************************************************************************)
C3_Order ==
    last.op = "put" =>
        /\ Before(last.trace, {"rename"}, LgvWrites)
        /\ Before(last.trace, LgvWrites, {"zadd_blk"})
        /\ Before(last.trace, {"zadd_blk"}, {"zadd_devices"})
        /\ Before(last.trace, {"rename"}, {"zadd_blk"})

C3_Witness ==
    /\ last.op = "put"
    /\ Issued(last.trace, {"rename"})
    /\ Issued(last.trace, {"hmset"})
    /\ Issued(last.trace, {"hset_ticktime"})
    /\ Issued(last.trace, {"zadd_blk"})
    /\ Issued(last.trace, {"zadd_devices"})

(***************************************************************************)
(* C4: putDevState writes the file, then runs updateLastGoodValue, then    *)
(* adds the block to fm:blk, and adds the device to fm:devices only when   *)
(* the record path did not exist when it was probed before the write.      *)
(***************************************************************************)
C4_Stages ==
    last.op = "put" =>
        /\ Before(last.trace, FileCmds, LgvCmds)
        /\ Before(last.trace, LgvCmds, {"zadd_blk"})
        /\ Before(last.trace, FileCmds, {"zadd_blk"})
        /\ Before(last.trace, {"zadd_blk"}, {"zadd_devices"})
        /\ Issued(last.trace, LgvCmds \cup {"zadd_blk"}) =>
                Issued(last.trace, {"rename"})
        /\ Issued(last.trace, {"zadd_devices"}) =>
                ~last.existed /\ Issued(last.trace, {"zadd_blk"})

C4_Witness ==
    /\ last.op = "put"
    /\ ~last.err
    /\ last.existed
    /\ Issued(last.trace, {"hmset"})
    /\ Issued(last.trace, {"zadd_blk"})
    /\ ~Issued(last.trace, {"zadd_devices"})

(***************************************************************************)
(* C5: an error raised by a step of putDevState (encoding, file write, an  *)
(* index-store command of updateLastGoodValue, the fm:blk add, the         *)
(* fm:devices add) stops the call at that step and is returned.            *)
(***************************************************************************)
C5_ErrorsShortCircuit ==
    (last.op = "put" /\ last.failedAt # 0 /\ FailedCmd(last) # "rename") =>
        /\ last.err
        /\ last.failedAt = Len(last.trace)

(***************************************************************************)
(* C6: the stored <m>_ticktime of every metric of every device never       *)
(* decreases, and a putDevState with a ticktime older than the stored one  *)
(* leaves the stored fields of that metric unchanged.                      *)
(***************************************************************************)
C6_LgvMonotone ==
    [][\A d \in Devs, id \in MetricIds :
        /\ LgvTick(lgv, d, id) <= LgvTick(lgv', d, id)
        /\ (/\ PutStep
            /\ last'.devid = d
            /\ LgvTick(lgv, d, id) # Nil
            /\ last'.ticktime.sec < LgvTick(lgv, d, id))
           => MetricFields(lgv', d, id) = MetricFields(lgv, d, id)]_vars

\* a successful write of a record holding a metric whose stored ticktime is
\* newer than the write's
C6_Witness ==
    /\ last.op = "put"
    /\ ~last.err
    /\ \E k \in DOMAIN last.stored : last.stored[k] > last.ticktime.sec

(***************************************************************************)
(* C7: for each metric id written by a successful putDevState, fm:lgv      *)
(* holds the tuple of the write with the greatest ticktime among the       *)
(* writes that contained the id (stated for runs in which no command       *)
(* fails).                                                                 *)
(***************************************************************************)
C7_LgvHoldsFreshest ==
    nFaults = 0 =>
        \A w \in written :
            LET same == {x \in written : x[1] = w[1] /\ x[2] = w[2]}
                tmax == SetMax({x[3] : x \in same})
            IN  /\ LgvTick(lgv, w[1], w[2]) = tmax
                /\ hget(lgv[w[1]], Field(w[2], "value"))
                        \in {x[4] : x \in {y \in same : y[3] = tmax}}

(***************************************************************************)
(* C8 as stated: a metric whose stored ticktime equals the incoming        *)
(* ticktime is not overwritten: first write wins at a tie (stated for runs *)
(* in which no command fails).                                             *)
(***************************************************************************)
C8_FirstWriteWinsAtTie ==
    [][(PutStep /\ nFaults' = 0) =>
        \A k \in DOMAIN last'.devState.metrics :
            (Processed(last', k) /\ last'.stored[k] = last'.ticktime.sec) =>
                MetricFields(lgv', last'.devid, last'.devState.metrics[k].id)
                    = MetricFields(lgv, last'.devid, last'.devState.metrics[k].id)]_vars

(***************************************************************************)
(* C8 amended: when updateLastGoodValue looks up a metric whose stored     *)
(* ticktime equals the incoming ticktime it issues the overwrite of that   *)
(* metric, and once that command succeeds the stored fields are those of   *)
(* the incoming metric (last write wins at a tie).                         *)
(***************************************************************************)
C8_LastWriteWinsAtTie ==
    last.op = "put" =>
        \A k \in DOMAIN last.devState.metrics :
            LET m == last.devState.metrics[k]
                t == last.ticktime.sec
            IN  (Processed(last, k) /\ last.stored[k] = t) =>
                    /\ Issued(last.trace, {"hmset"})
                    /\ \E p \in DOMAIN last.trace : last.trace[p] = <<"hmset", m.id>>
                    /\ Overwritten(last, k) =>
                        /\ LgvTick(lgv, last.devid, m.id) = t
                        /\ hget(lgv[last.devid], Field(m.id, "value")) = m.value
                        /\ hget(lgv[last.devid], Field(m.id, "status")) = m.status
                        /\ hget(lgv[last.devid], Field(m.id, "scale")) = m.scale

\* the second of two writes with the same ticktime and another value for a metric
C8_Witness ==
    /\ last.op = "put"
    /\ ~last.err
    /\ \E k \in DOMAIN last.devState.metrics :
        /\ last.stored[k] = last.ticktime.sec
        /\ Overwritten(last, k)
        /\ \E w \in written :
            /\ w[1] = last.devid
            /\ w[2] = last.devState.metrics[k].id
            /\ w[3] = last.ticktime.sec
            /\ w[4] # last.devState.metrics[k].value

(***************************************************************************)
(* C9: in every state reached by successful putDevState calls, the field   *)
(* ticktime of fm:lgv:<devid> is the maximum of the <id>_ticktime fields   *)
(* of the hash.                                                            *)
(***************************************************************************)
C9_TicktimeIsMax ==
    allPutsOk =>
        \A d \in Devs :
            LET ticks == {lgv[d][f] : f \in {g \in DOMAIN lgv[d] :
                                g[2] = "ticktime" /\ g # TicktimeField}}
            IN  ticks # {} =>
                    /\ TicktimeField \in DOMAIN lgv[d]
                    /\ lgv[d][TicktimeField] = SetMax(ticks)

(***************************************************************************)
(* C10: performing putDevState(d, t, s) twice in a row leaves the same     *)
(* record files and the same index state as performing it once.            *)
(***************************************************************************)
C10_Idempotent ==
    [][(PutStep /\ last'.repeat /\ ~last'.err) =>
        /\ files' = files
        /\ blk' = blk
        /\ devices' = devices
        /\ lgv' = lgv]_vars

(***************************************************************************)
(* Vocabulary of the housekeeping properties.                              *)
(***************************************************************************)
\* the step just taken is a housekeeping call
HkStep == nOps' = nOps + 1 /\ last'.op = "housekeeping"

\* the call was given a positive level1Blocks
PositiveLevel1(l) ==
    "level1Blocks" \in DOMAIN l.options /\ l.options.level1Blocks > 0

\* the records of a live directory: file name -> record
DirRecords(fs, dir) ==
    [n \in {f.name : f \in {g \in DOMAIN fs : g.dir = dir}} |-> fs[Path(dir, n)]]

\* the device whose blocks are being archived when command p of the call is
\* issued: the device of the last zcard on fm:blk before p
ArchDev(l, p) ==
    LET q == SetMax({k \in 1..p : l.trace[k][1] = "zcard_blk"})
    IN  l.trace[q][2]

(***************************************************************************)
(* C11: after archiveDeviceBlock(d, b) has called back without error, b is *)
(* not in fm:blk:<d>, b is in fm:_blk:<d>, the archive <d>-<b>.tgz exists  *)
(* and holds the records the live directory held, and the live directory   *)
(* does not exist (stated for housekeeping with a positive level1Blocks).  *)
(***************************************************************************)
C11_ArchivalDisjointness ==
    [][(HkStep /\ PositiveLevel1(last')) =>
        \A i \in DOMAIN last'.archived :
            LET d == last'.archived[i][1]
                b == last'.archived[i][2]
            IN  /\ b \notin blk'[d]
                /\ b \in ablk'[d]
                /\ <<d, b>> \in DOMAIN tgz'
                /\ tgz'[<<d, b>>].ok
                /\ tgz'[<<d, b>>].files = DirRecords(files, devBlockdir(d, b))
                /\ devBlockdir(d, b) \notin dirs']_vars

(***************************************************************************)
(* C12: when tar fails in archiveDeviceBlock(d, b), b stays in fm:blk:<d>, *)
(* the live directory is not deleted, b is not added to fm:_blk:<d> and    *)
(* the archival of the block reports the failure (stated for housekeeping  *)
(* with a positive level1Blocks).                                          *)
(***************************************************************************)
C12_TarFailureIsFatal ==
    [][(HkStep /\ PositiveLevel1(last') /\ FailedCmd(last') = "tar_czf") =>
        LET b == last'.trace[last'.failedAt][2]
            d == ArchDev(last', last'.failedAt)
        IN  /\ b \in blk'[d]
            /\ devBlockdir(d, b) \in dirs => devBlockdir(d, b) \in dirs'
            /\ b \notin ablk[d] => b \notin ablk'[d]
            /\ <<d, b>> \notin {last'.archived[i] : i \in DOMAIN last'.archived}]_vars

(***************************************************************************)
(* C13: in every state reached without a failing command, no block index   *)
(* is in both fm:blk:<devid> and fm:_blk:<devid>.                          *)
(***************************************************************************)
C13_LiveAndArchivedDisjoint ==
    nFaults = 0 => \A d \in Devs : blk[d] \cap ablk[d] = {}

(***************************************************************************)
(* C14: in every state reached without a failing command, every record     *)
(* file on disk lies in a block that is in fm:blk:<devid>, and its device  *)
(* is in fm:devices.                                                       *)
(***************************************************************************)
C14_FilesAreIndexed ==
    nFaults = 0 =>
        \A f \in DOMAIN files :
            /\ f.dir[2] \in blk[f.dir[1]]
            /\ f.dir[1] \in devices

(***************************************************************************)
(* C15: after a housekeeping that calls back without error at time T, no   *)
(* device, listed in fm:devices or not, has a block in fm:blk:<d> greater  *)
(* than blockIndex(T), and the live directory of every block the call      *)
(* removed from fm:blk is deleted.                                         *)
(***************************************************************************)
C15_FuturePruning ==
    [][(HkStep /\ last'.called /\ ~last'.err) =>
        \A d \in Devs :
            /\ \A b \in blk'[d] : b <= timeToBlockindex(last'.now)
            /\ \A b \in blk[d] \ blk'[d] : devBlockdir(d, b) \notin dirs']_vars

ArchiveStepRan(l) ==
    Cardinality({p \in DOMAIN l.trace : l.trace[p][1] = "zrange_devices"}) = 2

(***************************************************************************)
(* C17: housekeeping runs the archive step if and only if level1Blocks is  *)
(* greater than 0: when it is zero, negative or absent no block is         *)
(* archived, and for every positive value the step runs (stated for runs   *)
(* in which no command fails).                                             *)
(***************************************************************************)
C17_ArchiveIffPositive ==
    (last.op = "housekeeping" /\ nFaults = 0) =>
        /\ PositiveLevel1(last) => ArchiveStepRan(last)
        /\ ~PositiveLevel1(last) => last.archived = << >>

\* the index-store commands of housekeeping
HkIndexCmds ==
    {"zrange_devices", "zrangebyscore_blk", "zrem_blk", "zcard_blk",
     "zrange_blk", "zadd_ablk"}

(***************************************************************************)
(* C18: every housekeeping call invokes its callback, and when an          *)
(* index-store command of the prune step or of the archive step fails the  *)
(* callback receives the error.                                            *)
(***************************************************************************)
C18_CallbackInvoked ==
    last.op = "housekeeping" =>
        /\ last.called
        /\ FailedCmd(last) \in HkIndexCmds => last.err

(***************************************************************************)
(* Vocabulary of the projection properties.                                *)
(***************************************************************************)
\* the record files of the blocks the query opened, live or archived
WalkedFiles(l) ==
    {f \in DOMAIN files :
        \E b \in Elems(l.opened) : f.dir = devBlockdir(l.devid, b)}

\* the record files of the device no later than the time of the query
EligibleFiles(l) ==
    {f \in DOMAIN files :
        f.dir[1] = l.devid /\ NameEpoch(f.name) <= l.time.sec}

MetricIdsOf(rec) == {rec.metrics[k].id : k \in DOMAIN rec.metrics}

(***************************************************************************)
(* C19: every entry m of the result of projectMetrics(d, t, M) has         *)
(* m.ticktime <= t, and no record with ticktime <= t of a block the query  *)
(* walked, live or archived, holds m.id with a ticktime greater than       *)
(* m.ticktime (stated for a non-empty M and runs in which no command       *)
(* fails).                                                                 *)
(***************************************************************************)
C19_ProjectionComplete ==
    (last.op = "project" /\ last.metricIdList # << >> /\ nFaults = 0) =>
        \A i \in DOMAIN last.result :
            LET m == last.result[i]
            IN  /\ m.ticktime <= last.time.sec
                /\ \A f \in WalkedFiles(last) :
                    (/\ NameEpoch(f.name) <= last.time.sec
                     /\ m.id \in MetricIdsOf(files[f]))
                    => NameEpoch(f.name) <= m.ticktime

\* the records of the device no later than the time of the query in the
\* blocks within the travel limits, live and archived, each with its epoch
Candidates(l) ==
    LET live == Elems(getBlocksBackwards(Store, l.devid, l.time, FALSE))
        arch == {b \in Elems(getBlocksBackwards(Store, l.devid, l.time, TRUE)) :
                    <<l.devid, b>> \in DOMAIN tgz}
        fromLive == {[epoch |-> NameEpoch(f.name), rec |-> files[f]] :
                        f \in {g \in DOMAIN files :
                                \E b \in live : g.dir = devBlockdir(l.devid, b)}}
        fromArch == UNION {{[epoch |-> NameEpoch(n),
                             rec |-> tgz[<<l.devid, b>>].files[n]] :
                                n \in DOMAIN tgz[<<l.devid, b>>].files} :
                           b \in arch}
    IN  {c \in fromLive \cup fromArch : c.epoch <= l.time.sec}

(***************************************************************************)
(* C20: the result of projectMetrics with an empty metricIdList is exactly *)
(* the metrics of one record, the record of the device with the greatest   *)
(* ticktime <= time among the blocks within the travel limits; no entry    *)
(* comes from another record (stated for runs in which no command fails).  *)
(***************************************************************************)
C20_FreshestRecordOnly ==
    (last.op = "project" /\ last.metricIdList = << >> /\ nFaults = 0) =>
        LET cands == Candidates(last)
        IN  IF cands = {} THEN last.result = << >>
            ELSE \E c \in cands :
                    /\ \A x \in cands : x.epoch <= c.epoch
                    /\ last.result = metricsCopy(c.rec.metrics, << >>, c.epoch)

\* the step just taken is a projectMetrics call
ProjectStep == nOps' = nOps + 1 /\ last'.op = "project"

\* the value and ticktime of each entry of a result
Observed(result) ==
    [i \in DOMAIN result |->
        <<result[i].id, result[i].value, result[i].ticktime>>]

(***************************************************************************)
(* C21: when a projectMetrics(d, t, [m]) returned m from the block of t    *)
(* and the housekeeping that follows (with a positive level1Blocks)        *)
(* archives that block, the same projection made next returns m with the   *)
(* same value and ticktime.                                                *)
(***************************************************************************)
C21_ArchiveTransparent ==
    [][(/\ HkStep
        /\ PositiveLevel1(last')
        /\ last.op = "project"
        /\ Len(last.metricIdList) = 1
        /\ Len(last.result) = 1
        /\ timeToBlockindex(Time(last.result[1].ticktime, 0))
                = timeToBlockindex(last.time)
        /\ <<last.devid, timeToBlockindex(last.time)>> \in Elems(last'.archived))
       => Observed(projectMetrics(Store', last.devid, last.time,
                                  last.metricIdList, NoFault).result)
            = Observed(last.result)]_vars

\* the positions of the trace at which the call opens a block (openBlock
\* starts with the lookup of the block in fm:_blk), before and after the
\* listing of the archived blocks
OpenCalls(l) == {p \in DOMAIN l.trace : l.trace[p][1] = "zrangebyscore_ablk"}
ArchiveListing(l) ==
    {p \in DOMAIN l.trace : l.trace[p][1] = "zrevrangebyscore_ablk"}
LiveOpenCalls(l) ==
    {p \in OpenCalls(l) : \A q \in ArchiveListing(l) : p < q}
ArchiveOpenCalls(l) ==
    {p \in OpenCalls(l) : \E q \in ArchiveListing(l) : q < p}

FailedFile(l) ==
    LET t == Time(l.trace[l.failedAt][2], 0)
    IN  devStateFilename(l.devid, t)

\* the store without one record file
WithoutFile(st, f) ==
    [st EXCEPT !.files = [g \in DOMAIN @ \ {f} |-> @[g]]]

(***************************************************************************)
(* C23: a record file whose checksum or decoding fails adds nothing to a   *)
(* projection and the walk goes on: the call returns, without error, what  *)
(* it returns when that file does not exist, for an empty metricIdList as  *)
(* for a non-empty one.                                                    *)
(***************************************************************************)
C23_UnreadableFileSkipped ==
    (last.op = "project" /\ FailedCmd(last) \in {"chkcrc", "decode"}) =>
        /\ last.called
        /\ ~last.thrown
        /\ ~last.err
        /\ last.result =
                projectMetrics(WithoutFile(Store, FailedFile(last)), last.devid,
                               last.time, last.metricIdList, NoFault).result

\* the failed opening at position p of the trace belongs to the walk of the
\* live list
InLiveWalk(l, p) == \A q \in ArchiveListing(l) : p < q

\* the store in which each list a failed opening belongs to ends before the
\* block that could not be opened
CutAt(st, l) ==
    LET u == Elems(l.unopened)
        liveCut == {x[1] : x \in {y \in u : InLiveWalk(l, y[2])}}
        archCut == {x[1] : x \in {y \in u : ~InLiveWalk(l, y[2])}}
    IN  [st EXCEPT
            !.blk[l.devid] = {b \in @ : \A x \in liveCut : b > x},
            !.ablk[l.devid] = {b \in @ : \A x \in archCut : b > x}]

(***************************************************************************)
(* C24: when a block cannot be opened during projectMetrics, the walk of   *)
(* the list that block belongs to ends there (no further block of that     *)
(* list is opened), and the call returns without error the metrics         *)
(* resolved so far: the result of the projection over the lists that end   *)
(* before the failing blocks.                                              *)
(***************************************************************************)
C24_OpenFailureEndsList ==
    [][(ProjectStep /\ last'.unopened # << >>) =>
        /\ last'.called
        /\ ~last'.err
        /\ \A x \in Elems(last'.unopened) : \A q \in OpenCalls(last') :
                q > x[2] => (InLiveWalk(last', x[2]) /\ ~InLiveWalk(last', q))
        /\ last'.result =
                projectMetrics(CutAt(Store, last'), last'.devid, last'.time,
                               last'.metricIdList, NoFault).result]_vars

\* a projection that resolved a metric, then met a block it could not open,
\* and left an older block of the same list unopened
C24_Witness ==
    /\ last.op = "project"
    /\ last.unopened # << >>
    /\ last.result # << >>
    /\ Len(last.result) < Len(last.metricIdList)
    /\ \E x \in Elems(last.unopened) :
        \E b \in blk[last.devid] \cup ablk[last.devid] :
            /\ b < x[1]
            /\ b \notin Elems(last.opened)

\* the call before the step just taken is a write that renamed a new record
\* file and then failed to add its block to fm:blk
OrphanLeft ==
    /\ last.op = "put"
    /\ last.err
    /\ FailedCmd(last) = "zadd_blk"
    /\ last.renamed
    /\ last.newFile

\* the call before the step just taken is a successful write over a record
\* file that existed
Rewritten == last.op = "put" /\ ~last.err /\ last.existed

(***************************************************************************)
(* C25: a projection made right after a write that renamed its file and    *)
(* failed before its block was added to fm:blk returns no entry with the   *)
(* ticktime of that write, whether or not the block holds other records of *)
(* the device; a projection at the ticktime of a write that succeeded over *)
(* an existing file (the retry) returns the metrics of that write.         *)
(***************************************************************************)
C25_OrphanTolerance ==
    [][/\ (ProjectStep /\ OrphanLeft /\ last'.devid = last.devid)
            => \A i \in DOMAIN last'.result :
                    last'.result[i].ticktime # last.ticktime.sec
       /\ (/\ ProjectStep
           /\ Rewritten
           /\ last'.devid = last.devid
           /\ last'.time = last.ticktime
           /\ last'.metricIdList = << >>
           /\ last'.fault = NoFault)
            => last'.result = metricsCopy(last.devState.metrics, << >>,
                                          last.ticktime.sec)]_vars

\* the metric ids fm:lgv:<devid> holds fields of
StoredIds(h, devid) == {f[1] : f \in DOMAIN h[devid] \ {TicktimeField}}

(***************************************************************************)
(* C26: getDeviceLastGoodValue(devid) of a device with a last good value   *)
(* returns as lastTicktime the ticktime field of fm:lgv:<devid>, and as    *)
(* metrics one entry for every metric id stored in the hash, with its      *)
(* stored status, value, scale and ticktime.                               *)
(***************************************************************************)
C26_LastGoodValueServed ==
    (last.op = "lgv" /\ lgv[last.devid] # EmptyHash) =>
        LET h == lgv[last.devid]
            ms == Elems(last.result.metrics)
        IN  /\ last.called /\ ~last.err
            /\ last.result.lastTicktime = Time(hget(h, TicktimeField), 0)
            /\ {m.id : m \in ms} = StoredIds(lgv, last.devid)
            /\ \A m \in ms :
                /\ m.status = hget(h, Field(m.id, "status"))
                /\ m.value = hget(h, Field(m.id, "value"))
                /\ m.scale = hget(h, Field(m.id, "scale"))
                /\ m.ticktime = hget(h, Field(m.id, "ticktime"))

(***************************************************************************)
(* C27: for every DevState x, decoding the payload of the buffer the       *)
(* writer makes of x gives back x, and the reader's check accepts the four *)
(* bytes the writer put before the payload, also when the top bit of the   *)
(* CRC is set.                                                             *)
(***************************************************************************)
C27_CodecRoundTrip ==
    last.op = "read" =>
        /\ last.decoded = last.devState
        /\ last.accepted
        /\ Len(last.buf) >= 4
        /\ \A i \in 1..4 : last.buf[i] \in 0..255

\* a record with a negative metric value whose CRC has its top bit set has
\* been written and read back
C27_Witness ==
    /\ last.op = "read"
    /\ last.buf[1] >= 128
    /\ \E i \in DOMAIN last.devState.metrics :
            last.devState.metrics[i].value < 0

\* the first call of the run is the write of metric 1 = 100 of device 7 at
\* 2023-11-14T22:13:20Z, and it succeeded
ExampleWritten ==
    /\ nOps = 1
    /\ last.op = "put"
    /\ last.devid = 7
    /\ last.ticktime = Time(1700000000, 0)
    /\ last.devState.metrics = <<Metric(1, 100)>>
    /\ ~last.err

\* what the write of the example leaves when its block is block
ExampleLeaves(block) ==
    /\ DOMAIN files = {Path(devBlockdir(7, block), FileName(Time(1700000000, 0)))}
    /\ FileName(Time(1700000000, 0)) = <<1700000000, 0>>
    /\ blk[7] = {block}
    /\ 7 \in devices
    /\ hget(lgv[7], Field(1, "ticktime")) = 1700000000
    /\ hget(lgv[7], Field(1, "value")) = 100
    /\ hget(lgv[7], TicktimeField) = 1700000000

(***************************************************************************)
(* C28: with blockHours = 2, putDeviceState of metric 1 = 100 for device 7 *)
(* at 2023-11-14T22:13:20Z stores <root>/2023111410/7/1700000000.dat and   *)
(* leaves fm:blk:7 = {2023111410}, 7 in fm:devices, and fm:lgv:7 with      *)
(* 1_ticktime = 1700000000, 1_value = 100 and ticktime = 1700000000.       *)
(***************************************************************************)
C28_ExampleAsStated ==
    (blockHours = 2 /\ ExampleWritten) => ExampleLeaves(2023111410)

\* C28 as the code has it: the hour 22 is in block 11 of the day, and the
\* record is <root>/2023111411/7/1700000000.dat with fm:blk:7 = {2023111411}
C28_Example ==
    (blockHours = 2 /\ ExampleWritten) => ExampleLeaves(2023111411)

C28_Witness == blockHours = 2 /\ ExampleWritten /\ DOMAIN files # {}

(***************************************************************************)
(* C29: for a blockHours in 1..24 and instants t1 <= t2, the block index   *)
(* of t1 is at most the block index of t2, across hour, day, month and     *)
(* year boundaries.                                                        *)
(***************************************************************************)
C29_BlockindexMonotone ==
    (last.op = "blockindex" /\ last.hours \in 1..24
        /\ last.t1.sec <= last.t2.sec)
        => last.b1 <= last.b2

\* two instants on the two sides of a new year, in different blocks
C29_Witness ==
    /\ last.op = "blockindex"
    /\ last.t1 = Time(1704067199, 0)
    /\ last.t2 = Time(1704067200, 0)
    /\ last.hours = 24
    /\ last.b1 = 2023123100
    /\ last.b2 = 2024010100

(***************************************************************************)
(* C30: no two record files of a device have the same ticktime second: a   *)
(* ticktime maps to the file name floor(ticktime / 1000).dat, so the       *)
(* second of two writes within one epoch second replaces the file of the   *)
(* first.                                                                  *)
(***************************************************************************)
C30_OneFilePerSecond ==
    /\ \A f, g \in DOMAIN files :
        (f.dir = g.dir /\ NameEpoch(f.name) = NameEpoch(g.name)) => f = g
    /\ \A f \in DOMAIN files : f.name = <<NameEpoch(f.name), 0>>

(***************************************************************************)
(* C31: a live directory that a projectMetrics call extracted from the     *)
(* archive of block b of device d is removed by the archival run that      *)
(* follows: after the next housekeeping with a positive level1Blocks that  *)
(* called back without error, <dataRoot>/<b>/<d> does not exist.           *)
(***************************************************************************)
C31_ExtractedDirSwept ==
    [][(/\ HkStep
        /\ PositiveLevel1(last') /\ last'.fault = NoFault
        /\ last'.called /\ ~last'.err
        /\ last.op = "project")
       => \A b \in Elems(last.extracted) :
            devBlockdir(last.devid, b) \notin dirs']_vars

\* the archival of a block failed after its tarball was written: the failed
\* command of the call follows a tar czf of the same block
FailedAfterTar(l) ==
    /\ l.failedAt > 1
    /\ l.trace[l.failedAt][1] \in {"zrem_blk", "zadd_ablk"}
    /\ \E p \in 1..(l.failedAt - 1) :
        /\ l.trace[p] = <<"tar_czf", l.trace[l.failedAt][2]>>
        /\ \A q \in (p + 1)..(l.failedAt - 1) :
            l.trace[q][1] \in {"zrem_blk", "zadd_ablk"}

(***************************************************************************)
(* C32: when archiveDeviceBlock(d, b) fails at a step after the tarball    *)
(* was written, b is still in fm:blk:<d> (so that a later housekeeping     *)
(* finds it again), and b is never left in neither fm:blk:<d> nor          *)
(* fm:_blk:<d> (stated for housekeeping with a positive level1Blocks).     *)
(***************************************************************************)
C32_AtLeastOnceArchival ==
    [][(HkStep /\ PositiveLevel1(last') /\ FailedAfterTar(last'))
       => LET d == ArchDev(last', last'.failedAt)
              b == last'.trace[last'.failedAt][2]
          IN  b \in blk'[d]]_vars

\* what the store holds of one device: its record files, temp files and
\* directories, its archives, and its keys fm:blk, fm:_blk and fm:lgv
DevParts(st, d) ==
    [files |-> [f \in {g \in DOMAIN st.files : g.dir[1] = d} |-> st.files[f]],
     tmps |-> {f \in st.tmps : f.dir[1] = d},
     dirs |-> {dir \in st.dirs : dir[1] = d},
     tgz |-> [k \in {j \in DOMAIN st.tgz : j[1] = d} |-> st.tgz[k]],
     blk |-> st.blk[d], ablk |-> st.ablk[d], lgv |-> st.lgv[d]]

\* the store with the device d alone
Only(st, d) ==
    [files |-> DevParts(st, d).files, tmps |-> DevParts(st, d).tmps,
     dirs |-> DevParts(st, d).dirs, tgz |-> DevParts(st, d).tgz,
     devices |-> st.devices \cap {d},
     blk |-> [e \in DOMAIN st.blk |-> IF e = d THEN st.blk[e] ELSE {}],
     ablk |-> [e \in DOMAIN st.ablk |-> IF e = d THEN st.ablk[e] ELSE {}],
     lgv |-> [e \in DOMAIN st.lgv |-> IF e = d THEN st.lgv[e] ELSE EmptyHash]]

\* housekeeping has no block of the device to prune or to archive
Settled(st, d, now, options) ==
    /\ \A b \in st.blk[d] : b <= timeToBlockindex(now)
    /\ SkipArchive(options)
        \/ Cardinality(st.blk[d]) - options.level1Blocks <= 0

(***************************************************************************)
(* C33: pruning or archiving a block of device d leaves every other device *)
(* undisturbed: a housekeeping call that has no block of d' to prune or to *)
(* archive leaves the record files, fm:blk, fm:_blk, fm:lgv and archives   *)
(* of d' as they were, whatever it does to the blocks of other devices;    *)
(* and when no command fails, what a call leaves of any device d' is what  *)
(* the same call leaves of it on a store that holds d' alone.              *)
(***************************************************************************)
C33_OtherDevicesUndisturbed ==
    [][HkStep =>
        \A d \in Devs :
            /\ Settled(Store, d, last'.now, last'.options)
                => DevParts(Store', d) = DevParts(Store, d)
            /\ last'.fault = NoFault
                => DevParts(Store', d) =
                    DevParts(housekeeping(Only(Store, d), last'.now,
                                          last'.options, NoFault).st, d)]_vars

\* a block has been archived for one device while another device keeps its
\* live records of the same block
C33_Witness ==
    /\ last.op = "housekeeping"
    /\ \E key \in Elems(last.archived) : \E d \in Devs \ {key[1]} :
        /\ key[2] \in blk[d]
        /\ \E f \in DOMAIN files : f.dir = devBlockdir(d, key[2])
        /\ devBlockdir(key[1], key[2]) \notin dirs

\* the walk of the live blocks that a projectMetrics call starts with
LiveWalk(st, devid, time, metricIdList) ==
    walkBlockList(Log(Ctx(st), "zrevrangebyscore_blk", devid), devid, time,
                  metricIdList, getBlocksBackwards(st, devid, time, FALSE),
                  NoFault)

\* the answer is complete: every requested id is resolved, or, for an empty
\* metricIdList, a record has been read
Complete(c, metricIdList) ==
    IF metricIdList = << >>
    THEN \E p \in DOMAIN c.trace : c.trace[p][1] = "decode"
    ELSE Len(c.result) = Len(metricIdList)

(***************************************************************************)
(* C34: projectMetrics consults the archived blocks only when the walk of  *)
(* the live blocks left something unresolved: when the live walk gave the  *)
(* complete answer (every requested id, or the freshest record for an      *)
(* empty metricIdList), the call opens no block of the archived list,      *)
(* extracts no archive beyond what the live walk did, and returns the      *)
(* result of the live walk (stated for calls in which no command fails).   *)
(***************************************************************************)
C34_ArchiveOnlyWhenUnresolved ==
    [][(ProjectStep /\ last'.fault = NoFault)
       => LET c == LiveWalk(Store, last'.devid, last'.time, last'.metricIdList)
          IN  Complete(c, last'.metricIdList)
                => /\ ArchiveOpenCalls(last') = {}
                   /\ last'.extracted = c.extracted
                   /\ last'.result = c.result]_vars

(***************************************************************************)
(* C35: when updateLGV overwrites a metric, the fields fm:lgv:<d> holds of *)
(* that metric are those of the incoming metric: <id>_ticktime,            *)
(* <id>_status, <id>_value, <id>_scale, and <id>_timestamp exactly when    *)
(* the incoming metric carries a timestamp; no <id>_timestamp of an        *)
(* earlier record is left.                                                 *)
(***************************************************************************)
C35_OverwriteReplacesAllFields ==
    last.op = "put" =>
        \A k \in DOMAIN last.devState.metrics :
            LET m == last.devState.metrics[k]
            IN  (/\ Overwritten(last, k)
                 /\ \A j \in DOMAIN last.devState.metrics :
                        j > k => last.devState.metrics[j].id # m.id)
                => MetricFields(lgv, last.devid, m.id)
                    = updateMetric(m, last.ticktime.sec)

(***************************************************************************)
(* C36: projectMetrics does not change a live record: every record file    *)
(* that exists before the call exists after it with the same content, also *)
(* when its block is in fm:_blk and the archive of the block holds an      *)
(* older record of the same ticktime (stated for calls in which no command *)
(* fails).                                                                 *)
(***************************************************************************)
C36_ProjectionKeepsLiveRecords ==
    [][(ProjectStep /\ last'.fault = NoFault)
       => \A f \in DOMAIN files :
            f \in DOMAIN files' /\ files'[f] = files[f]]_vars

\* the record files an archive holds: <<devid, block, file name>>
ArchivedRecords(a) ==
    UNION {{<<k[1], k[2], n>> : n \in DOMAIN a[k].files} :
            k \in {j \in DOMAIN a : a[j].ok}}

\* the record files of the live directories
LiveRecords(fs) == {<<f.dir[1], f.dir[2], f.name>> : f \in DOMAIN fs}

(***************************************************************************)
(* C37: archived data is never lost: a record of device d that the archive *)
(* <d>-<b>.tgz holds is, after every later putDevState and housekeeping    *)
(* (which may archive b again), still held by the archive or by the live   *)
(* directory of the block (stated for calls in which no command fails).    *)
(***************************************************************************)
C37_ArchivedRecordsKept ==
    [][(nOps' = nOps + 1 /\ last'.fault = NoFault)
       => ArchivedRecords(tgz) \subseteq
            ArchivedRecords(tgz') \cup LiveRecords(files')]_vars

\* the epoch seconds of the records of a device: in the live directories of
\* the blocks of fm:blk, and in the live directories and the archives
LiveEpochs(d) ==
    {NameEpoch(f.name) : f \in {g \in DOMAIN files :
                                    g.dir[1] = d /\ g.dir[2] \in blk[d]}}
AllEpochs(d) ==
    {NameEpoch(r[3]) : r \in {x \in LiveRecords(files) \cup ArchivedRecords(tgz) :
                                x[1] = d}}

(***************************************************************************)
(* C40: getDeviceTimeSpan(d) returns (min, max) with min <= max, min the   *)
(* earliest record ticktime of d over its live and archived blocks and max *)
(* the latest record ticktime in its live blocks, in every reachable state *)
(* of the index, also when the lowest live block of the device is older    *)
(* than its lowest archived block.                                         *)
(***************************************************************************)
C40_TimeSpan ==
    (last.op = "timespan" /\ last.called /\ ~last.err) =>
        /\ last.result[1] <= last.result[2]
        /\ last.result[1] = SetMin(AllEpochs(last.devid))
        /\ last.result[2] = SetMax(LiveEpochs(last.devid))

\* the two calls in flight have completed
RaceOver == pending # << >> /\ \A i \in DOMAIN pending : pending[i].pc = "done"

\* the record of a put is retrievable: its file exists in the live
\* directory of its block or is held by the archive of the block
Retrievable(p) ==
    LET fn == devStateFilename(p.devid, p.ticktime)
    IN  \/ fn \in DOMAIN files
        \/ /\ fn.dir \in DOMAIN tgz
           /\ tgz[fn.dir].ok /\ fn.name \in DOMAIN tgz[fn.dir].files

(***************************************************************************)
(* C38: when a putDevState(d, tt, s) and a housekeeping that archives or   *)
(* prunes the block of tt were in flight together, in whatever order their *)
(* commands took effect, and both have completed with the put successful,  *)
(* the record is retrievable: its file is in the live directory or in the  *)
(* archive of the block; the block is never referenced by fm:blk:<d> with  *)
(* no data behind it.  (A block after the block of now that the prune step *)
(* removed from fm:blk is exempt.)                                         *)
(***************************************************************************)
C38_PutSurvivesHousekeeping ==
    (RaceOver /\ pending[2].op = "housekeeping" /\ ~pending[1].err) =>
        LET p == pending[1]
            block == timeToBlockindex(p.ticktime)
        IN  \/ Retrievable(p)
            \/ /\ block \notin blk[p.devid]
               /\ block > timeToBlockindex(pending[2].now)

(***************************************************************************)
(* C39: when two putDevState calls for the same device with different      *)
(* ticktimes are in flight together and their updateLGV commands (the read *)
(* of <id>_ticktime, then the write of the fields) interleave, the stored  *)
(* <id>_ticktime never decreases and ends as the greater of the two        *)
(* ticktimes (or a greater one stored before).                             *)
(***************************************************************************)
C39_LgvTicktimeMonotoneUnderRace ==
    [][\A d \in DeepDevs, id \in MetricIds :
        /\ LgvTick(lgv, d, id) # Nil
            => LgvTick(lgv', d, id) >= LgvTick(lgv, d, id)
        /\ (/\ RaceOver' /\ pending'[2].op = "put"
            /\ d = pending'[1].devid
            /\ \A i \in DOMAIN pending' :
                \E k \in DOMAIN pending'[i].devState.metrics :
                    pending'[i].devState.metrics[k].id = id)
            => \A t \in {pending'[i].ticktime.sec : i \in DOMAIN pending'} :
                    LgvTick(lgv', d, id) >= t]_vars

====
